---- MODULE Spec2Model ----
(***************************************************************************)
(* Model of the temporal simulation engine of thelook-analytics:          *)
(* core/management/commands/simulate_data.py (Command) with the constants *)
(* of core/simulation_constants.py.                                       *)
(*                                                                         *)
(* Numbers.  Multipliers of the source are floats; the model keeps them   *)
(* as exact integers.  A configured multiplier is written in hundredths   *)
(* (1.3 is 130), the running seasonality value m in units of 1/One        *)
(* (1.0 is One), so that every product the code forms stays an integer.   *)
(* A uniform draw uniform(lo, hi) = lo + (hi - lo) * u is taken at the    *)
(* positions u of UnitDraws (in percent of the range).                    *)
(* Dates of a run are day ordinals counted from start_date (day 0 is      *)
(* 1 January of the start year).                                          *)
(***************************************************************************)
EXTENDS Integers, Sequences, FiniteSets, TLC

VARIABLES
    \* ---- get_seasonality_multiplier / daily mean, evaluated on one date
    season_date,     \* the date handed to get_seasonality_multiplier
    season,          \* the record of its evaluation, None before
    mean,            \* the Poisson mean formed from it (handle 325-337)
    \* ---- Command object and the day loop of handle
    current_date,    \* the day the loop is at (ordinal from start_date)
    market_event,    \* self.market_event
    event_end_date,  \* self.event_end_date
    event_call,      \* the last call of check_market_event: date, ret, drew
    started,         \* the event drawn last: date, duration, kind
    events_left,     \* how many more events the run may draw
    \* ---- handle
    pc,                \* where handle is: begin, start, day, order, item,
                       \* end_day, done, error, and the steps after the loop
    profile,           \* the draws the run takes: day, cap or run
    today,             \* the last day of the loop (ordinal)
    customer_metadata, \* persona, created_at, max_purchases, purchase_count
    created_products,  \* suggested_price, cost (cents), lifecycle
    daily_volume,      \* the Poisson draw of the day
    valid_indices,     \* the eligible customers of the day
    buyer_indices,     \* the buyers drawn for the day
    buyer_pos,         \* the position of the for loop in buyer_indices
    order,             \* the order being built (the local of that name)
    n_items,           \* its number of items
    bulk_qty,          \* its bulk quantity, NoBulk for None
    item,              \* the item built last (the local of that name)
    orders_today,      \* the customers of the orders appended this day
    items_today,       \* the number of items built this day
    order_count,       \* per customer, the number of orders in orders_objs
    \* ---- the relational store, the cache and the flush of handle
    db,                \* the committed tables: customers, products, orders,
                       \* items (what every reader of the store sees)
    tx,                \* the tables as the open transaction of handle sees them
    next_id,           \* per table, the id the next inserted row gets
    cache,             \* the keys of the Redis server
    redis_up,          \* whether the Redis server answers
    created_customers, \* the customers bulk_create returned
    orders_objs,       \* the draft orders, each with its temp_items
    saved_orders,      \* the orders bulk_create returned
    ops,               \* the statements sent to the database, or the calls
                       \* of the cache client, in order
    options,           \* the options handle was called with
    runs,              \* the runs of handle that were replayed from the seed
    _instance,         \* RedisClient._instance
    reply              \* what the last operation on the store or the cache
                       \* returned or raised

season_vars == <<season_date, season, mean>>

event_vars == <<current_date, market_event, event_end_date, event_call,
                started, events_left>>

handle_vars == <<pc, profile, today, customer_metadata, created_products, daily_volume,
                 valid_indices, buyer_indices, buyer_pos, order, n_items,
                 bulk_qty, item, orders_today, items_today, order_count>>

store_vars == <<db, tx, next_id, cache, redis_up, created_customers,
                orders_objs, saved_orders, reply>>

aux_vars == <<ops, options, runs, _instance>>

vars == <<season_vars, event_vars, handle_vars, store_vars, aux_vars>>

\* Python's None where a string is expected
None == "None"

\* Python's None where a date is expected
NoDate == 0 - 1

\* an optional record is a sequence of at most one record: <<>> is None
Nothing == <<>>

Some(r) == <<r>>

Max(a, b) == IF a >= b THEN a ELSE b

Min(a, b) == IF a <= b THEN a ELSE b

(***************************************************************************)
(* core/models.py: the tables.  A table is the set of its rows; a row      *)
(* carries its id and, as a ghost, its origin: "run" when the running      *)
(* handle inserted it, "before" when it was there before.                  *)
(***************************************************************************)
EmptyStore == [customers |-> {}, products |-> {}, orders |-> {}, items |-> {}]

FirstIds == [customers |-> 1, products |-> 1, orders |-> 1, items |-> 1]

\* a Redis server without keys
EmptyCache ==
    [faturamento |-> {}, pedidos_count |-> {},
     top_produtos |-> [members |-> {}, ex |-> 0 - 1],
     vendas_regiao |-> {}, clientes_ativos |-> {}]

\* no store and no cache is in use
StoreIdle ==
    /\ db = EmptyStore
    /\ tx = EmptyStore
    /\ next_id = FirstIds
    /\ cache = EmptyCache
    /\ redis_up = TRUE
    /\ created_customers = <<>>
    /\ orders_objs = <<>>
    /\ saved_orders = <<>>
    /\ reply = Nothing

\* no statement sent, no options parsed, no run replayed, no client made
AuxIdle ==
    /\ ops = <<>>
    /\ options = Nothing
    /\ runs = <<>>
    /\ _instance = None

(***************************************************************************)
(* core/simulation_constants.py (hundredths)                               *)
(***************************************************************************)
WEEKEND_BOOST_MIN == 100
WEEKEND_BOOST_MAX == 130
BLACK_FRIDAY_MONTH == 11
BLACK_FRIDAY_START_DAY == 20
BLACK_FRIDAY_END_DAY == 30
BLACK_FRIDAY_BASE_MULTIPLIER == 350
BLACK_FRIDAY_VARIANCE_MIN == 70
BLACK_FRIDAY_VARIANCE_MAX == 120
CYBER_MONDAY_MONTH == 12
CYBER_MONDAY_START_DAY == 1
CYBER_MONDAY_END_DAY == 7
CYBER_MONDAY_BOOST_MIN == 200
CYBER_MONDAY_BOOST_MAX == 350
CHRISTMAS_MONTH == 12
CHRISTMAS_START_DAY == 10
CHRISTMAS_END_DAY == 24
CHRISTMAS_BOOST_MIN == 150
CHRISTMAS_BOOST_MAX == 250
POST_CHRISTMAS_START_DAY == 25
POST_CHRISTMAS_REDUCTION_MIN == 10
POST_CHRISTMAS_REDUCTION_MAX == 40
JANUARY_MONTH == 1
JANUARY_REDUCTION_MIN == 40
JANUARY_REDUCTION_MAX == 80
COMPANY_ANNIVERSARY_MONTH == 5
COMPANY_ANNIVERSARY_BOOST_MIN == 120
COMPANY_ANNIVERSARY_BOOST_MAX == 180
MIN_SEASONALITY_MULTIPLIER == 50
CAGR_ANNUAL_RATE == 12

\* 1.0 in the unit of the running seasonality value m
One == 100 * 1000

\* one hundredth in the unit of m
Hundredth == One \div 100

(***************************************************************************)
(* Calendar                                                                *)
(***************************************************************************)
DaysInMonth(month, leap) ==
    CASE month \in {4, 6, 9, 11} -> 30
      [] month = 2 -> IF leap THEN 29 ELSE 28
      [] OTHER -> 31

\* every calendar date with every weekday it can fall on
\* (datetime.date: weekday() is 0 for Monday .. 6 for Sunday)
Dates ==
    {[month |-> mo, day |-> dd, weekday |-> wd] :
        mo \in 1..12, dd \in 1..31, wd \in 0..6} \
    {d \in [month : 1..12, day : 1..31, weekday : 0..6] :
        d.day > DaysInMonth(d.month, TRUE)}

\* positions of a uniform draw inside its range, in percent
UnitDraws == {0, 50, 100}

\* np.random.uniform(lo, hi) at position u
Uniform(lo, hi, u) == lo + ((hi - lo) * u) \div 100

(***************************************************************************)
(* Command.get_seasonality_multiplier                                      *)
(***************************************************************************)
\* line 57 with the comparison made strict: Saturday is missed
IsWeekendStrict(d) == d.weekday > 5

\* line 57: the weekend test
IsWeekend(d) == d.weekday >= 5

\* lines 61-102: the if/elif chain; the sequence of rules whose branch runs
SeasonalRule(d) ==
    IF d.month = BLACK_FRIDAY_MONTH
       /\ BLACK_FRIDAY_START_DAY <= d.day /\ d.day <= BLACK_FRIDAY_END_DAY
    THEN "black_friday"
    ELSE IF d.month = CYBER_MONDAY_MONTH
       /\ CYBER_MONDAY_START_DAY <= d.day /\ d.day <= CYBER_MONDAY_END_DAY
       /\ d.weekday = 0
    THEN "cyber_monday"
    ELSE IF d.month = CHRISTMAS_MONTH
       /\ CHRISTMAS_START_DAY <= d.day /\ d.day <= CHRISTMAS_END_DAY
    THEN "christmas"
    ELSE IF d.month = CHRISTMAS_MONTH /\ d.day >= POST_CHRISTMAS_START_DAY
    THEN "post_christmas"
    ELSE IF d.month = JANUARY_MONTH
    THEN "january"
    ELSE IF d.month = COMPANY_ANNIVERSARY_MONTH
    THEN "anniversary"
    ELSE None

\* lines 65-68 with the base multiplier left out
BlackFridayFactorNoBase(u) ==
    Uniform(BLACK_FRIDAY_VARIANCE_MIN, BLACK_FRIDAY_VARIANCE_MAX, u) * 100

\* lines 65-68: uniform(VARIANCE_MIN, VARIANCE_MAX) * BASE_MULTIPLIER
BlackFridayFactor(u) ==
    Uniform(BLACK_FRIDAY_VARIANCE_MIN, BLACK_FRIDAY_VARIANCE_MAX, u)
        * BLACK_FRIDAY_BASE_MULTIPLIER

\* the factor (hundredths x hundredths) the branch of a rule multiplies m by,
\* for a draw at position u
RuleFactor(rule, u) ==
    CASE rule = "black_friday" -> BlackFridayFactor(u)
      [] rule = "cyber_monday" ->
            Uniform(CYBER_MONDAY_BOOST_MIN, CYBER_MONDAY_BOOST_MAX, u) * 100
      [] rule = "christmas" ->
            Uniform(CHRISTMAS_BOOST_MIN, CHRISTMAS_BOOST_MAX, u) * 100
      [] rule = "post_christmas" ->
            Uniform(POST_CHRISTMAS_REDUCTION_MIN, POST_CHRISTMAS_REDUCTION_MAX, u) * 100
      [] rule = "january" ->
            Uniform(JANUARY_REDUCTION_MIN, JANUARY_REDUCTION_MAX, u) * 100
      [] rule = "anniversary" ->
            Uniform(COMPANY_ANNIVERSARY_BOOST_MIN, COMPANY_ANNIVERSARY_BOOST_MAX, u) * 100
      [] OTHER -> 100 * 100

\* line 104 without the floor: a plausible slip
SeasonalityUnfloored(m) == m

\* line 104: return max(m, MIN_SEASONALITY_MULTIPLIER)
SeasonalityFloor(m) == Max(m, MIN_SEASONALITY_MULTIPLIER * Hundredth)

\* lines 54-58: m = 1.0, then the weekend boost
WeekendStep(d, uw) ==
    IF IsWeekend(d)
    THEN (One * Uniform(WEEKEND_BOOST_MIN, WEEKEND_BOOST_MAX, uw)) \div 100
    ELSE One

\* the whole function: uw and ur are the positions of the weekend draw and
\* of the draw of the rule that matches.  The record keeps, beside the
\* returned value, which multiplications were made.
get_seasonality_multiplier(d, uw, ur) ==
    LET rule == SeasonalRule(d)
        m1   == WeekendStep(d, uw)
        m2   == IF rule = None THEN m1
                ELSE ((m1 \div 100) * RuleFactor(rule, ur)) \div 100
    IN  [date    |-> d,
         weekend |-> IsWeekend(d),
         wdraw   |-> IF IsWeekend(d)
                     THEN Uniform(WEEKEND_BOOST_MIN, WEEKEND_BOOST_MAX, uw)
                     ELSE 100,
         rules   |-> IF rule = None THEN <<>> ELSE <<rule>>,
         factor  |-> RuleFactor(rule, ur),
         m       |-> m2,
         result  |-> SeasonalityFloor(m2)]

(***************************************************************************)
(* Command.apply_cagr, Command.apply_market_event and the Poisson mean     *)
(***************************************************************************)
\* line 120-121: years_elapsed = days_elapsed / 365.25, taken at whole years
YearsElapsed(days_elapsed) == (days_elapsed * 100) \div 36525

\* line 122: growth_factor = (1 + CAGR_ANNUAL_RATE) ** years_elapsed, in
\* hundredths, at whole years (between two whole years the float lies
\* between the two values)
RECURSIVE GrowthFactor(_)
GrowthFactor(years_elapsed) ==
    IF years_elapsed = 0 THEN 100
    ELSE (GrowthFactor(years_elapsed - 1) * (100 + CAGR_ANNUAL_RATE)) \div 100

\* line 123: base_volume * growth_factor (hundredths of an order)
apply_cagr(base_volume, years_elapsed) ==
    base_volume * GrowthFactor(years_elapsed)

MARKET_EVENTS == <<"viral", "marketing", "site_down", "logistics_crisis">>

EventKinds == {MARKET_EVENTS[i] : i \in 1..Len(MARKET_EVENTS)}

\* EVENT_MULTIPLIERS.get(market_event, 1.0), in hundredths
EVENT_MULTIPLIERS(kind) ==
    CASE kind = "viral" -> 200
      [] kind = "marketing" -> 180
      [] kind = "site_down" -> 30
      [] kind = "logistics_crisis" -> 50
      [] OTHER -> 100

\* lines 170-173 (multiplier and result in units of 1/One)
apply_market_event(multiplier, kind) ==
    IF kind = None THEN multiplier
    ELSE (multiplier * EVENT_MULTIPLIERS(kind)) \div 100

\* handle, lines 328-337: the mean handed to np.random.poisson.
\* seasonality and the result are in units of 1/One.
DailyMean(seasonality, years_elapsed, kind) ==
    LET base_volume == 30
        with_cagr   == apply_cagr(base_volume, years_elapsed)
        multiplier  == (seasonality * (with_cagr \div base_volume)) \div 100
    IN  apply_market_event(multiplier, kind) * 30

(***************************************************************************)
(* Command.check_market_event                                              *)
(***************************************************************************)
MARKET_EVENT_MIN_DURATION == 3
MARKET_EVENT_MAX_DURATION == 7

\* lines 136-140 with the date comparison inverted
EventActiveInverted(cur, me, end) ==
    me # None /\ end # NoDate /\ cur > end

\* lines 136-140: an event is stored and current_date < event_end_date
EventActive(cur, me, end) ==
    me # None /\ end # NoDate /\ cur < end

\* line 154 left out: the stored kind survives a failed draw
KeptEvent(me) == me

\* line 154: self.market_event = None
ClearedEvent(me) == None

\* the whole method for one outcome of its draws: fire is
\* random.random() < MARKET_EVENT_PROBABILITY, kind the random.choice,
\* duration the random.randint.  drew tells whether the draw was reached.
check_market_event(cur, me, end, fire, kind, duration) ==
    IF EventActive(cur, me, end)
    THEN [market_event |-> me, event_end_date |-> end, ret |-> me,
          drew |-> FALSE, fired |-> FALSE]
    ELSE IF fire
    THEN [market_event |-> kind, event_end_date |-> cur + duration,
          ret |-> kind, drew |-> TRUE, fired |-> TRUE]
    ELSE [market_event |-> ClearedEvent(me), event_end_date |-> end,
          ret |-> None, drew |-> TRUE, fired |-> FALSE]

\* the outcomes of the draws a call can see
EventDraws ==
    [fire : BOOLEAN, kind : EventKinds,
     duration : MARKET_EVENT_MIN_DURATION..MARKET_EVENT_MAX_DURATION]

\* the call on the Command object at current_date, with its bookkeeping
CallCheckMarketEvent(dr) ==
    LET r == check_market_event(current_date, market_event, event_end_date,
                                dr.fire, dr.kind, dr.duration)
    IN  /\ (r.fired => events_left > 0)
        /\ market_event' = r.market_event
        /\ event_end_date' = r.event_end_date
        /\ event_call' = Some([date |-> current_date, ret |-> r.ret,
                                drew |-> r.drew])
        /\ started' = IF r.fired
                      THEN Some([date |-> current_date,
                                 duration |-> dr.duration, kind |-> dr.kind])
                      ELSE started
        /\ events_left' = IF r.fired THEN events_left - 1 ELSE events_left

(***************************************************************************)
(* Specification SpecSeason: get_seasonality_multiplier on every date of   *)
(* the calendar, then the Poisson mean of handle for that date.            *)
(***************************************************************************)
\* whole years since start_date the mean is formed for
MaxYears == 2

EventIdle ==
    /\ current_date = 0
    /\ market_event = None
    /\ event_end_date = NoDate
    /\ event_call = Nothing
    /\ started = Nothing
    /\ events_left = 0

\* handle is not running
HandleIdle ==
    /\ pc = "idle"
    /\ profile = "idle"
    /\ today = 0
    /\ customer_metadata = <<>>
    /\ created_products = <<>>
    /\ daily_volume = 0
    /\ valid_indices = {}
    /\ buyer_indices = <<>>
    /\ buyer_pos = 0
    /\ order = Nothing
    /\ n_items = 0
    /\ bulk_qty = 0
    /\ item = Nothing
    /\ orders_today = <<>>
    /\ items_today = 0
    /\ order_count = <<>>

SeasonInit ==
    /\ season_date \in {Some(d) : d \in Dates}
    /\ season = Nothing
    /\ mean = Nothing
    /\ EventIdle
    /\ HandleIdle
    /\ StoreIdle
    /\ AuxIdle

EvalSeasonality ==
    /\ season = Nothing
    /\ \E uw \in UnitDraws, ur \in UnitDraws :
          season' = Some(get_seasonality_multiplier(season_date[1], uw, ur))
    /\ UNCHANGED <<aux_vars,
                   season_date, mean, event_vars, handle_vars, store_vars>>

FormMean ==
    /\ season # Nothing
    /\ mean = Nothing
    /\ \E y \in 0..MaxYears, kind \in EventKinds \cup {None} :
          mean' = Some([years |-> y, event |-> kind,
                        value |-> DailyMean(season[1].result, y, kind)])
    /\ UNCHANGED <<aux_vars,
                   season_date, season, event_vars, handle_vars, store_vars>>

SeasonNext == EvalSeasonality \/ FormMean

SpecSeason == SeasonInit /\ [][SeasonNext]_vars

(***************************************************************************)
(* Specification SpecEvent: check_market_event called once per             *)
(* consecutive day, as the day loop of handle calls it (line 332).         *)
(***************************************************************************)
\* the days the loop runs over, and the events it may draw
EventDays == 12
MaxEvents == 2

SeasonIdle ==
    /\ season_date = Nothing
    /\ season = Nothing
    /\ mean = Nothing

EventInit ==
    /\ SeasonIdle
    /\ HandleIdle
    /\ StoreIdle
    /\ current_date = 0
    /\ market_event = None
    /\ event_end_date = NoDate
    /\ event_call = Nothing
    /\ started = Nothing
    /\ events_left = MaxEvents
    /\ AuxIdle

EventDay ==
    /\ current_date <= EventDays
    /\ \E dr \in EventDraws : CallCheckMarketEvent(dr)
    /\ current_date' = current_date + 1
    /\ UNCHANGED <<aux_vars, season_vars, handle_vars, store_vars>>

EventNext == EventDay

SpecEvent == EventInit /\ [][EventNext]_vars

(***************************************************************************)
(* Specification SpecCatalog: the days of SpecEvent, and the two lookups   *)
(* of a kind's multiplier: Command.apply_market_event on what              *)
(* check_market_event returned, and get_multiplier of the event object     *)
(* MarketEventFactory.check_event creates (core/simulation/events.py).     *)
(***************************************************************************)
\* events.py lines 23-60: each class subscripts EVENT_MULTIPLIERS with its
\* own literal key; a key the dict does not hold raises KeyError.
\* event_type is the key of MarketEventFactory.events the class stands under.
get_multiplier(event_type) ==
    LET key == CASE event_type = "viral" -> "viral"
                 [] event_type = "marketing" -> "marketing"
                 [] event_type = "site_down" -> "site_down"
                 [] event_type = "logistics" -> "logistics"
    IN  IF key \in EventKinds
        THEN [raised |-> None, value |-> EVENT_MULTIPLIERS(key)]
        ELSE [raised |-> "KeyError", value |-> 0]

\* handle line 333 on the kind the last check_market_event returned, for
\* the multiplier 1.0
ApplyMarketEvent ==
    /\ event_call # Nothing
    /\ event_call[1].ret # None
    /\ reply' = Some([op |-> "apply_market_event", kind |-> event_call[1].ret,
                      raised |-> None,
                      value |-> apply_market_event(100, event_call[1].ret)])
    /\ UNCHANGED <<aux_vars, season_vars, event_vars, handle_vars, db, tx,
                   next_id, cache, redis_up, created_customers, orders_objs,
                   saved_orders>>

\* events.py lines 74-79 when the draw fires, then get_multiplier of the
\* object returned
check_event ==
    /\ \E event_type \in {"viral", "marketing", "site_down", "logistics"} :
          LET r == get_multiplier(event_type)
          IN  reply' = Some([op |-> "get_multiplier", kind |-> event_type,
                             raised |-> r.raised, value |-> r.value])
    /\ UNCHANGED <<aux_vars, season_vars, event_vars, handle_vars, db, tx,
                   next_id, cache, redis_up, created_customers, orders_objs,
                   saved_orders>>

CatalogNext == EventDay \/ ApplyMarketEvent \/ check_event

SpecCatalog == EventInit /\ [][CatalogNext]_vars

(***************************************************************************)
(* core/simulation/engine.py: SimulationEngine.generate_orders_batch.      *)
(* The module imports SEASONALITY_BASELINE and SEGMENT_PURCHASE_FREQUENCY, *)
(* which simulation_constants.py does not define: the baseline is an       *)
(* input here, and the weighted choice may return any customer of the      *)
(* list (SEGMENT_PURCHASE_FREQUENCY.get(segment, 1.0) of an empty table).  *)
(***************************************************************************)
\* the dates the batch is generated for and customers are enrolled on:
\* ord is the day of a year of 365 days
EngineDates ==
    LET before[m \in 0..12] ==
            IF m = 0 THEN 0 ELSE before[m - 1] + DaysInMonth(m, FALSE)
    IN  {[month |-> d[1], day |-> d[2], ord |-> before[d[1] - 1] + d[2]] :
            d \in {<<3, 16>>, <<11, 30>>, <<12, 15>>}}

\* lines 32-46, in hundredths
calculate_seasonality(d, baseline) ==
    IF d.month = 11 /\ 20 <= d.day /\ d.day <= 30
    THEN BLACK_FRIDAY_BASE_MULTIPLIER + (d.day - 20) * 20
    ELSE IF d.month = 12
    THEN CHRISTMAS_BOOST_MIN
            + ((CHRISTMAS_BOOST_MAX - CHRISTMAS_BOOST_MIN) * d.day) \div 31
    ELSE baseline

\* the longest batch that is generated
MaxBatch == 2

\* lines 53-77 for one engine (start_date lies days_elapsed days before
\* current_date), one customer list and one outcome of the draws.
\* customers: n rows, the last `late` of them enrolled on `enrolled`, the
\* others on the first day of the year.
generate_orders_batch ==
    /\ reply = Nothing
    /\ \E current_date_ \in EngineDates, enrolled \in EngineDates,
          n \in {10, 50}, late \in 0..2, days_elapsed \in {0, 1461},
          fire \in BOOLEAN,
          event_type \in {"viral", "marketing", "site_down", "logistics"} :
          LET customers == [i \in 1..n |->
                              [id |-> i,
                               created_at |-> IF i <= n - late THEN 1
                                              ELSE enrolled.ord]]
              seasonality == calculate_seasonality(current_date_, 100)
              \* line 51: (1 + CAGR_ANNUAL_RATE) ** (days / 365.25), in
              \* ten-thousandths: 1.12 ** 0 and 1.12 ** 4
              growth == IF days_elapsed = 0 THEN 10000 ELSE 15735
              \* lines 58-59: int(len(customers) * 0.02 * growth * season)
              volume == (n * 2 * growth * seasonality) \div (100 * 10000 * 100)
              m == get_multiplier(event_type)
              \* lines 61-63
              daily == IF fire THEN (volume * m.value) \div 100 ELSE volume
          IN  IF fire /\ m.raised # None
              THEN reply' = Some([op |-> "generate_orders_batch",
                                  raised |-> m.raised, orders |-> <<>>])
              ELSE /\ daily <= MaxBatch
                   /\ \E chosen \in [1..daily -> 1..n] :
                      reply' = Some([op |-> "generate_orders_batch",
                                     raised |-> None,
                                     orders |->
                                        [k \in 1..daily |->
                                           [customer |-> customers[chosen[k]],
                                            order_date |-> current_date_.ord,
                                            delivery_date |->
                                               current_date_.ord + 7,
                                            status |-> "Completed",
                                            channel |-> "Online"]]])
    /\ UNCHANGED <<aux_vars, season_vars, event_vars, handle_vars, db, tx,
                   next_id, cache, redis_up, created_customers, orders_objs,
                   saved_orders>>

EngineInit ==
    /\ SeasonIdle
    /\ EventIdle
    /\ HandleIdle
    /\ StoreIdle
    /\ AuxIdle

SpecEngine == EngineInit /\ [][generate_orders_batch]_vars

(***************************************************************************)
(* core/data_utils.py: RedisClient.get_client, called again and again      *)
(* while the cache server comes and goes.  ops is the log of the calls.    *)
(***************************************************************************)
\* the calls of get_client that are logged
MaxCalls == 6

\* lines 63-72 for the class attribute inst and a server that answers the
\* ping (up) or not: the attribute afterwards, what the call returns, and
\* whether a ping succeeded in it
get_client(inst, up) ==
    IF inst = None
    THEN IF up
         THEN [_instance |-> "client", ret |-> "client", pinged |-> TRUE]
         ELSE [_instance |-> "client", ret |-> None, pinged |-> FALSE]
    ELSE [_instance |-> inst, ret |-> inst, pinged |-> FALSE]

CallGetClient ==
    /\ Len(ops) < MaxCalls
    /\ LET r == get_client(_instance, redis_up)
       IN  /\ _instance' = r._instance
           /\ reply' = Some([op |-> "get_client", ret |-> r.ret])
           /\ ops' = Append(ops, [op |-> "get_client", up |-> redis_up,
                                  ret |-> r.ret, pinged |-> r.pinged])
    /\ UNCHANGED <<options, runs, season_vars, event_vars, handle_vars, db,
                   tx, next_id, cache, redis_up, created_customers,
                   orders_objs, saved_orders>>

\* the server stops or starts answering
ServerFlip ==
    /\ redis_up' = ~redis_up
    /\ UNCHANGED <<aux_vars, season_vars, event_vars, handle_vars, db, tx,
                   next_id, cache, created_customers, orders_objs,
                   saved_orders, reply>>

ClientInit ==
    /\ SeasonIdle
    /\ EventIdle
    /\ HandleIdle
    /\ db = EmptyStore
    /\ tx = EmptyStore
    /\ next_id = FirstIds
    /\ cache = EmptyCache
    /\ redis_up \in BOOLEAN
    /\ created_customers = <<>>
    /\ orders_objs = <<>>
    /\ saved_orders = <<>>
    /\ reply = Nothing
    /\ AuxIdle

SpecClient == ClientInit /\ [][CallGetClient \/ ServerFlip]_vars

(***************************************************************************)
(* Command.handle: the population (lines 225-320)                          *)
(*                                                                         *)
(* Customer, Product, Order and OrderItem objects are the records of the   *)
(* keyword arguments handle builds them with.  Customers and products are  *)
(* numbered from 1 (the code numbers them from 0).  Prices are in cents.   *)
(* years is 1: the year loop runs once, and start_date is day 0.           *)
(*                                                                         *)
(* profile names the draws a run takes: "day" follows every step of a      *)
(* short window with several outcomes of each draw, "cap" follows a window *)
(* long enough for a lifetime cap to be reached, with one outcome of the   *)
(* draws that describe an order and its items.                             *)
(***************************************************************************)
\* weekday of start_date (1 January)
StartWeekday == 2

\* the profiles that take one outcome of most draws
Narrow == profile \in {"cap", "run"}

RECURSIVE MonthDay(_, _)
MonthDay(n, month) ==
    IF n < DaysInMonth(month, FALSE) THEN [month |-> month, day |-> n + 1]
    ELSE MonthDay(n - DaysInMonth(month, FALSE), (month % 12) + 1)

\* the datetime.date of day n of the run
CalendarDate(n) ==
    [month |-> MonthDay(n, 1).month, day |-> MonthDay(n, 1).day,
     weekday |-> (StartWeekday + n) % 7]

\* random.randint(lo, hi), drawn at both ends
RandInt(lo, hi) == {lo, hi}

\* int(per_year * random.uniform(lo, hi)), lo and hi in hundredths
NumNew(per_year, lo, hi) ==
    {(per_year * Uniform(lo, hi, u)) \div 100 : u \in UnitDraws}

PERSONAS == <<"OneTime", "Leal", "VIP">>

PersonaDraws ==
    IF Narrow THEN {PERSONAS[1]} ELSE {PERSONAS[1], PERSONAS[3]}

\* lines 293-301: the lifetime cap of a persona, drawn at the low end
MaxPurchasesDraws(persona) ==
    LET range == CASE persona = "OneTime" -> <<30, 100>>
                   [] persona = "Leal" -> <<100, 300>>
                   [] OTHER -> <<500, 1500>>
    IN  {Uniform(range[1], range[2], 0)}

\* lines 269-272: fake.date_between(year_date, min(31 December, today))
EnrolDraws == IF Narrow THEN {0} ELSE 0..Min(364, today)

\* lines 276-303: the metadata of a new customer
CustomerDrafts ==
    UNION {[persona : {p}, created_at : EnrolDraws,
            max_purchases : MaxPurchasesDraws(p), purchase_count : {0}] :
           p \in PersonaDraws}

\* lines 234-239: the price range of a category (cents)
PriceRange(cat) ==
    CASE cat = "Eletronicos" -> <<50000, 500000>>
      [] cat = "Roupas" -> <<4000, 30000>>
      [] OTHER -> <<5000, 100000>>

\* lines 246-253: Product(...), cost = round(price * 0.6, 2); of the name
\* (category, a word and a colour of Faker) the model keeps the category,
\* so that two products can bear the same name
NewProduct(cat, u, lifecycle) ==
    LET price == Uniform(PriceRange(cat)[1], PriceRange(cat)[2], u)
    IN  [name |-> cat, category |-> cat, suggested_price |-> price,
         cost |-> (price * 60 + 50) \div 100, lifecycle |-> lifecycle]

ProductDrafts ==
    IF Narrow THEN {NewProduct("Roupas", 0, "Stable")}
    ELSE {NewProduct("Roupas", 0, "Stable"),
          NewProduct("Eletronicos", 100, "Viral")}

\* the options of the run: --customers-per-year, --products-per-year
CustomersPerYear == 2
ProductsPerYear == 1

REGIONS == <<"Sudeste", "Sul", "Nordeste", "Centro-Oeste", "Norte">>

\* line 286: random.choice(REGIONS)
RegionDraws ==
    IF profile = "run" THEN {REGIONS[1], REGIONS[2]} ELSE {REGIONS[1]}

\* lines 280-288: Customer(...)
NewCustomer(region, created_at) ==
    [region |-> region, created_at |-> created_at]

\* objects.bulk_create(objs): the objects in their order, each with the id
\* of its new row
BulkCreate(objs, first_id) ==
    [i \in 1..Len(objs) |->
        [id |-> first_id + i - 1, origin |-> "run"] @@ objs[i]]

\* the rows a list of saved objects stands for
Rows(objs) == {objs[i] : i \in 1..Len(objs)}

\* a statement on a table
Statement(op, table) == [op |-> op, table |-> table]

DeleteParentsFirst ==
    <<Statement("delete", "customers"), Statement("delete", "products"),
      Statement("delete", "orders"), Statement("delete", "items")>>

\* lines 211-214: OrderItem, Order, Product, Customer
DeleteStatements ==
    <<Statement("delete", "items"), Statement("delete", "orders"),
      Statement("delete", "products"), Statement("delete", "customers")>>

\* lines 309-310: Product.objects.bulk_create, Customer.objects.bulk_create
PopulationStatements ==
    <<Statement("create", "products"), Statement("create", "customers")>>

\* lines 463 and 480: Order.objects.bulk_create, OrderItem.objects.bulk_create
FlushStatements ==
    <<Statement("create", "orders"), Statement("create", "items")>>

DeleteNothing ==
    /\ pc = "begin"
    /\ pc' = "start"
    /\ UNCHANGED <<aux_vars,
                   season_vars, event_vars, profile, today, customer_metadata,
                   created_products, daily_volume, valid_indices,
                   buyer_indices, buyer_pos, order, n_items, bulk_qty, item,
                   orders_today, items_today, order_count, db, tx, next_id,
                   cache, redis_up, created_customers, orders_objs,
                   saved_orders, reply>>

\* lines 209-214: the four deletes, inside the transaction of handle
DeleteOldData ==
    /\ pc = "begin"
    /\ tx' = EmptyStore
    /\ pc' = "start"
    /\ ops' = ops \o DeleteStatements
    /\ UNCHANGED <<options, runs, _instance,
                   season_vars, event_vars, profile, today, customer_metadata,
                   created_products, daily_volume, valid_indices,
                   buyer_indices, buyer_pos, order, n_items, bulk_qty, item,
                   orders_today, items_today, order_count, db, next_id,
                   cache, redis_up, created_customers, orders_objs,
                   saved_orders, reply>>

\* lines 225-320: the year loop, the bulk creates and the loop set-up
GeneratePopulation ==
    /\ pc = "start"
    /\ \E n \in NumNew(ProductsPerYear, 80, 120) :
          \E all_products \in [1..n -> ProductDrafts] :
             created_products' = BulkCreate(all_products, next_id.products)
    /\ \E n \in NumNew(CustomersPerYear, 70, 130) :
          /\ customer_metadata' \in [1..n -> CustomerDrafts]
          /\ order_count' = [c \in 1..n |-> 0]
          /\ \E regions \in [1..n -> RegionDraws] :
                created_customers' =
                    BulkCreate([c \in 1..n |->
                                   NewCustomer(regions[c],
                                       customer_metadata'[c].created_at)],
                               next_id.customers)
    /\ tx' = [tx EXCEPT !.products = @ \cup Rows(created_products'),
                        !.customers = @ \cup Rows(created_customers')]
    /\ next_id' = [next_id EXCEPT
                      !.products = @ + Len(created_products'),
                      !.customers = @ + Len(created_customers')]
    /\ current_date' = 0
    /\ pc' = "day"
    /\ ops' = ops \o PopulationStatements
    /\ UNCHANGED <<options, runs, _instance,
                   season_vars, market_event, event_end_date, event_call,
                   started, events_left, profile, today, daily_volume,
                   valid_indices, buyer_indices, buyer_pos, order, n_items,
                   bulk_qty, item, orders_today, items_today, db, cache,
                   redis_up, orders_objs, saved_orders, reply>>

(***************************************************************************)
(* Command.handle: the day loop (lines 323-457)                            *)
(***************************************************************************)
\* the largest daily volume drawn
MaxVolume == 3

\* np.random.poisson(lam): every count has a positive probability when
\* lam > 0, and the draw is 0 when lam = 0
Poisson(lam) ==
    IF lam = 0 THEN {0}
    ELSE IF Narrow THEN {0, 1, MaxVolume} ELSE 0..MaxVolume

EligibleAnyDay(meta, cur) ==
    meta.purchase_count < meta.max_purchases

EligibleAtCap(meta, cur) ==
    /\ meta.created_at <= cur
    /\ meta.purchase_count <= meta.max_purchases

\* lines 350-351
Eligible(meta, cur) ==
    /\ meta.created_at <= cur
    /\ meta.purchase_count < meta.max_purchases

ValidIndicesUnfiltered(metadata, cur) == DOMAIN metadata

\* lines 347-352 (the list, as the set of its members)
ValidIndices(metadata, cur) ==
    {idx \in DOMAIN metadata : Eligible(metadata[idx], cur)}

\* lines 360-365
PersonaWeight(persona) ==
    CASE persona = "VIP" -> 15
      [] persona = "Leal" -> 5
      [] OTHER -> 1

ChoiceWithReplacement(valid, size, metadata) ==
    {s \in [1..size -> valid] :
        \A i \in 1..size : PersonaWeight(metadata[s[i]].persona) > 0}

\* lines 371-376: np.random.choice(valid_indices, size, p, replace=False)
\* returns size distinct members of positive probability, in any order
Choice(valid, size, metadata) ==
    {s \in [1..size -> valid] :
        /\ \A i \in 1..size : PersonaWeight(metadata[s[i]].persona) > 0
        /\ \A i \in 1..size, j \in 1..size : i # j => s[i] # s[j]}

STATUS == <<"Completed", "Pending", "Cancelled", "Returned">>

CHANNELS == <<"Online", "Store", "Phone", "App">>

StatusDraws ==
    IF profile = "cap" THEN {STATUS[1]} ELSE {STATUS[1], STATUS[3]}

ChannelDraws == {CHANNELS[1]}

\* lines 387-391: the normal lead time, or the logistic delay
DeliveryDraws ==
    IF Narrow THEN {2} ELSE RandInt(2, 10) \cup RandInt(30, 90)

\* lines 408-411
NItemsDraws(persona) ==
    IF profile = "cap" THEN {1}
    ELSE IF persona = "VIP" THEN RandInt(2, 6) ELSE RandInt(1, 3)

\* line 418: bulk_qty = None
NoBulk == 0

\* lines 414-418: no bulk purchase, or random.randint(20, 50)
BulkDraws == IF Narrow THEN {NoBulk} ELSE {NoBulk} \cup RandInt(20, 50)

QuantityDrawsFromZero(bulk) ==
    IF bulk # NoBulk THEN {bulk} ELSE RandInt(0, 3)

\* line 435: bulk_qty if bulk_qty else random.randint(1, 3)
QuantityDraws(bulk) ==
    IF bulk # NoBulk THEN {bulk}
    ELSE IF Narrow THEN {1} ELSE RandInt(1, 3)

\* LIFECYCLE_WEIGHTS.get(product_lifecycle, 1.0), in tenths
get_product_weight(product_lifecycle) ==
    CASE product_lifecycle = "Viral" -> 50
      [] product_lifecycle = "Stable" -> 10
      [] product_lifecycle = "Obsolete" -> 1
      [] OTHER -> 10

\* lines 421-433: np.random.choice(len(created_products), p=probs_products)
ProductChoice(products) ==
    {i \in DOMAIN products : get_product_weight(products[i].lifecycle) > 0}

\* lines 436-440: float(product.suggested_price), or the price error 1.99
PriceDraws(product) ==
    IF Narrow THEN {product.suggested_price}
    ELSE {product.suggested_price, 199}

\* line 448: random.choice([0, 0, 5, 10])
DiscountDraws == IF Narrow THEN {0} ELSE {0, 5, 10}

\* lines 345-376: the eligible customers and the buyers of the day.  A day
\* that does not reach an assignment does not read the local either: the
\* model leaves it empty.
SelectBuyers(volume) ==
    LET valid == IF volume > 0
                 THEN ValidIndices(customer_metadata, current_date) ELSE {}
        size  == Min(volume, Cardinality(valid))
    IN  /\ daily_volume' = volume
        /\ valid_indices' = valid
        /\ IF valid # {}
           THEN /\ buyer_indices' \in Choice(valid, size, customer_metadata)
                /\ buyer_pos' = 1
                /\ pc' = "order"
           ELSE /\ buyer_indices' = <<>>
                /\ buyer_pos' = 0
                /\ pc' = "end_day"

\* lines 323-376: the head of the loop body, up to the choice of the buyers
BeginDay ==
    /\ pc = "day"
    /\ current_date <= today
    /\ \E uw \in UnitDraws, ur \in UnitDraws, dr \in EventDraws :
          LET seasonality ==
                  get_seasonality_multiplier(CalendarDate(current_date),
                                             uw, ur).result
              ev  == check_market_event(current_date, market_event,
                                        event_end_date, dr.fire, dr.kind,
                                        dr.duration)
              lam == DailyMean(seasonality, YearsElapsed(current_date),
                               ev.ret)
          IN  /\ CallCheckMarketEvent(dr)
              /\ \E volume \in Poisson(lam) : SelectBuyers(volume)
    /\ orders_today' = <<>>
    /\ items_today' = 0
    /\ UNCHANGED <<aux_vars,
                   store_vars, season_vars, current_date, profile, today,
                   customer_metadata, created_products, order, n_items,
                   bulk_qty, item, order_count>>

\* lines 378-418: one pass of the buyer loop, up to the item loop
NewOrder ==
    /\ pc = "order"
    /\ LET cust_idx == buyer_indices[buyer_pos]
           persona  == customer_metadata[cust_idx].persona
       IN  /\ customer_metadata' =
                  [customer_metadata EXCEPT ![cust_idx].purchase_count = @ + 1]
           /\ \E status \in StatusDraws, delivery_days \in DeliveryDraws,
                 channel \in ChannelDraws :
                 order' = Some([customer |-> cust_idx,
                                order_date |-> current_date,
                                delivery_date |-> current_date + delivery_days,
                                status |-> status, channel |-> channel,
                                temp_items |-> 0])
           /\ orders_today' = Append(orders_today, cust_idx)
           /\ order_count' = [order_count EXCEPT ![cust_idx] = @ + 1]
           /\ orders_objs' =
                  IF profile = "run"
                  THEN Append(orders_objs,
                              [order'[1] EXCEPT !.temp_items = <<>>])
                  ELSE orders_objs
           /\ \E n \in NItemsDraws(persona), bulk \in BulkDraws :
                 /\ n_items' = IF bulk # NoBulk THEN 1 ELSE n
                 /\ bulk_qty' = bulk
    /\ item' = Nothing
    /\ pc' = "item"
    /\ UNCHANGED <<aux_vars,
                   season_vars, event_vars, profile, today, created_products,
                   daily_volume, valid_indices, buyer_indices, buyer_pos,
                   items_today, db, tx, next_id, cache, redis_up,
                   created_customers, saved_orders, reply>>

\* lines 420-454: one pass of the item loop
NewItem ==
    /\ pc = "item"
    /\ created_products # <<>>
    /\ \E prod_idx \in ProductChoice(created_products),
          qty \in QuantityDraws(bulk_qty), discount \in DiscountDraws :
          \E price \in PriceDraws(created_products[prod_idx]) :
             item' = Some([order |-> order[1].customer,
                           product |-> prod_idx,
                           quantity |-> qty,
                           unit_price |-> price,
                           unit_cost |-> created_products[prod_idx].cost,
                           discount_applied |-> discount])
    /\ order' = Some([order[1] EXCEPT !.temp_items = @ + 1])
    /\ orders_objs' =
           IF profile = "run"
           THEN [orders_objs EXCEPT
                    ![Len(orders_objs)].temp_items = Append(@, item'[1])]
           ELSE orders_objs
    /\ items_today' = items_today + 1
    /\ IF order[1].temp_items + 1 < n_items
       THEN pc' = "item" /\ UNCHANGED buyer_pos
       ELSE IF buyer_pos < Len(buyer_indices)
       THEN pc' = "order" /\ buyer_pos' = buyer_pos + 1
       ELSE pc' = "end_day" /\ UNCHANGED buyer_pos
    /\ UNCHANGED <<aux_vars,
                   season_vars, event_vars, profile, today, customer_metadata,
                   created_products, daily_volume, valid_indices,
                   buyer_indices, n_items, bulk_qty, orders_today,
                   order_count, db, tx, next_id, cache, redis_up,
                   created_customers, saved_orders, reply>>

\* lines 430-432 with no product: np.random.choice(0, p=[]) raises ValueError
ItemError ==
    /\ pc = "item"
    /\ created_products = <<>>
    /\ pc' = "error"
    /\ UNCHANGED <<aux_vars,
                   store_vars, season_vars, event_vars, profile, today, customer_metadata,
                   created_products, daily_volume, valid_indices,
                   buyer_indices, buyer_pos, order, n_items, bulk_qty, item,
                   orders_today, items_today, order_count>>

\* lines 456-457: the day is over; its locals are not read again
EndDay ==
    /\ pc = "end_day"
    /\ current_date' = current_date + 1
    /\ pc' = "day"
    /\ daily_volume' = 0
    /\ valid_indices' = {}
    /\ buyer_indices' = <<>>
    /\ buyer_pos' = 0
    /\ order' = Nothing
    /\ n_items' = 0
    /\ bulk_qty' = NoBulk
    /\ item' = Nothing
    /\ orders_today' = <<>>
    /\ items_today' = 0
    /\ UNCHANGED <<aux_vars,
                   store_vars, season_vars, market_event, event_end_date, event_call,
                   started, events_left, profile, today, customer_metadata,
                   created_products, order_count>>

\* line 323: current_date > today ends the loop
FinishLoop ==
    /\ pc = "day"
    /\ current_date > today
    /\ pc' = "done"
    /\ UNCHANGED <<aux_vars,
                   store_vars, season_vars, event_vars, profile, today, customer_metadata,
                   created_products, daily_volume, valid_indices,
                   buyer_indices, buyer_pos, order, n_items, bulk_qty, item,
                   orders_today, items_today, order_count>>

Next ==
    \/ DeleteOldData
    \/ GeneratePopulation
    \/ BeginDay
    \/ NewOrder
    \/ NewItem
    \/ ItemError
    \/ EndDay
    \/ FinishLoop

\* handle is called on a new Command object (lines 22-25)
HandleStart ==
    /\ SeasonIdle
    /\ EventIdle
    /\ pc = "begin"
    /\ customer_metadata = <<>>
    /\ created_products = <<>>
    /\ daily_volume = 0
    /\ valid_indices = {}
    /\ buyer_indices = <<>>
    /\ buyer_pos = 0
    /\ order = Nothing
    /\ n_items = 0
    /\ bulk_qty = NoBulk
    /\ item = Nothing
    /\ orders_today = <<>>
    /\ items_today = 0
    /\ order_count = <<>>

(***************************************************************************)
(* Specification Spec: every step of handle over a window of MaxDays + 1   *)
(* days.                                                                   *)
(***************************************************************************)
\* today, as a day of the run
MaxDays == 1

Init ==
    /\ HandleStart
    /\ StoreIdle
    /\ profile = "day"
    /\ today = MaxDays
    /\ AuxIdle

Spec == Init /\ [][Next]_vars

(***************************************************************************)
(* Specification SpecCap: handle over a window in which a customer can     *)
(* reach the lowest lifetime cap (30 purchases).                           *)
(***************************************************************************)
\* today, as a day of the run
CapDays == 30

CapInit ==
    /\ HandleStart
    /\ StoreIdle
    /\ profile = "cap"
    /\ today = CapDays
    /\ AuxIdle

SpecCap == CapInit /\ [][Next]_vars

(***************************************************************************)
(* Command.handle: the aggregates and their publication (lines 483-573).   *)
(* A key family of the cache is the set of its entries (key, val, ex);     *)
(* top_produtos is a sorted set, which exists while it has a member.       *)
(***************************************************************************)
\* ex=86400 of every set, and of the expire of top_produtos
Expiry == 86400

\* simulation_constants.py 187
REDIS_TTL_SECONDS == 86400

\* SET key val EX ex: the entry replaces the one the key had
Put(entries, key, val, ex) ==
    {e \in entries : e.key # key} \cup {[key |-> key, val |-> val, ex |-> ex]}

\* the order of an item, the customer of an order, the product of an item
OrderOf(store, it) == CHOOSE o \in store.orders : o.id = it.order

CustomerOf(store, o) == CHOOSE c \in store.customers : c.id = o.customer

ProductOf(store, it) == CHOOSE p \in store.products : p.id = it.product

AllItems(store) == store.items

\* OrderItem.objects.filter(order__status="Completed")
CompletedItems(store) ==
    {it \in store.items : OrderOf(store, it).status = "Completed"}

\* Sum(F("unit_price") * F("quantity")), in cents
RECURSIVE Faturamento(_)
Faturamento(items) ==
    IF items = {} THEN 0
    ELSE LET it == CHOOSE x \in items : TRUE
         IN  it.unit_price * it.quantity + Faturamento(items \ {it})

\* Sum("quantity")
RECURSIVE TotalQty(_)
TotalQty(items) ==
    IF items = {} THEN 0
    ELSE LET it == CHOOSE x \in items : TRUE
         IN  it.quantity + TotalQty(items \ {it})

\* lines 498-510: per order_date, the revenue and the distinct orders
aggregated_by_day(store) ==
    LET items == CompletedItems(store)
        days  == {OrderOf(store, it).order_date : it \in items}
    IN  {[order_date |-> d,
          total_faturamento |->
              Faturamento({it \in items : OrderOf(store, it).order_date = d}),
          total_pedidos |->
              Cardinality({it.order : it \in
                             {x \in items : OrderOf(store, x).order_date = d}})] :
         d \in days}

\* lines 513-518: per product name, the quantity sold
vendas_por_produto(store) ==
    LET items == CompletedItems(store)
        names == {ProductOf(store, it).name : it \in items}
    IN  {[product__name |-> n,
          total_qty |->
              TotalQty({it \in items : ProductOf(store, it).name = n})] :
         n \in names}

\* lines 521-527: per region of the customer, the revenue
vendas_por_regiao(store) ==
    LET items   == CompletedItems(store)
        RegionOf(it) == CustomerOf(store, OrderOf(store, it)).region
        regions == {RegionOf(it) : it \in items}
    IN  {[order__customer__region |-> rg,
          total |-> Faturamento({it \in items : RegionOf(it) = rg})] :
         rg \in regions}

\* lines 530-538: the customers with a completed order dated today
clientes_ativos_hoje(store, hoje) ==
    {OrderOf(store, it).customer :
        it \in {x \in CompletedItems(store) :
                   /\ OrderOf(store, x).order_date >= hoje
                   /\ OrderOf(store, x).order_date < hoje + 1}}

PutAllWithoutExpiry(entries, pairs) ==
    {e \in entries : \A kv \in pairs : kv[1] # e.key}
    \cup {[key |-> kv[1], val |-> kv[2], ex |-> 0 - 1] : kv \in pairs}

\* one SET per row of a query, the rows given as pairs of key and value
PutAll(entries, pairs) ==
    {e \in entries : \A kv \in pairs : kv[1] # e.key}
    \cup {[key |-> kv[1], val |-> kv[2], ex |-> Expiry] : kv \in pairs}

PublishTopProdutosIncrementing(zset, rows) ==
    [members |->
         {m \in zset.members :
             \A row \in rows : row.product__name # m.member}
         \cup {[member |-> row.product__name,
                score |-> row.total_qty
                          + TotalQty({[quantity |-> m.score] :
                                         m \in {x \in zset.members :
                                                   x.member =
                                                       row.product__name}})] :
                  row \in rows},
     ex |-> Expiry]

PublishTopProdutosWithoutDelete(zset, rows) ==
    [members |->
         {m \in zset.members :
             \A row \in rows : row.product__name # m.member}
         \cup {[member |-> row.product__name, score |-> row.total_qty] :
                  row \in rows},
     ex |-> IF rows = {} THEN zset.ex ELSE Expiry]

\* lines 551-554: DEL top_produtos, one ZADD per row, EXPIRE (which does
\* nothing when the key does not exist)
PublishTopProdutos(zset, rows) ==
    [members |-> {[member |-> row.product__name, score |-> row.total_qty] :
                     row \in rows},
     ex |-> IF rows = {} THEN 0 - 1 ELSE Expiry]

\* lines 540-571: the commands of the pipeline, executed on the server
PublishAggregates(c, store, hoje) ==
    [faturamento |->
         PutAll(c.faturamento,
                {<<row.order_date, row.total_faturamento>> :
                    row \in aggregated_by_day(store)}),
     pedidos_count |->
         PutAll(c.pedidos_count,
                {<<row.order_date, row.total_pedidos>> :
                    row \in aggregated_by_day(store)}),
     top_produtos |->
         PublishTopProdutos(c.top_produtos, vendas_por_produto(store)),
     vendas_regiao |->
         PutAll(c.vendas_regiao,
                {<<row.order__customer__region, row.total>> :
                    row \in {x \in vendas_por_regiao(store) :
                               x.order__customer__region # ""}}),
     clientes_ativos |->
         Put(c.clientes_ativos, hoje,
             Cardinality(clientes_ativos_hoje(store, hoje)), Expiry)]

(***************************************************************************)
(* core/models.py: OrderItem and its constraints; Specification SpecStore: *)
(* OrderItem.objects.create on a store that holds one customer, one        *)
(* product and one order (tests/test_model_constraints.py, lines 7-9).     *)
(***************************************************************************)
quantity_gte_0(row) == row.quantity >= 0

\* models.py 90-93: the four CheckConstraints
quantity_gt_0(row) == row.quantity > 0

unit_price_gte_0(row) == row.unit_price >= 0

unit_cost_gte_0(row) == row.unit_cost >= 0

discount_gte_0(row) == row.discount_applied >= 0

\* models.py 79-81: the columns of OrderItem: the two foreign keys and the
\* PositiveIntegerField (CHECK quantity >= 0)
OrderItemColumns(store, row) ==
    /\ \E o \in store.orders : o.id = row.order
    /\ \E p \in store.products : p.id = row.product
    /\ row.quantity >= 0

\* whether the database accepts the row
OrderItemAccepted(store, row) ==
    /\ OrderItemColumns(store, row)
    /\ quantity_gt_0(row)
    /\ unit_price_gte_0(row)
    /\ unit_cost_gte_0(row)
    /\ discount_gte_0(row)

\* the rows of the table after INSERT of the row: the insert raises
\* IntegrityError and stores nothing when the database refuses the row
InsertOrderItem(store, row) ==
    IF OrderItemAccepted(store, row)
    THEN [store EXCEPT !.items = @ \cup {row}]
    ELSE store

\* the values the inserts take (prices in cents)
ItemValues ==
    [quantity : {0 - 1, 0, 1, 3}, unit_price : {0 - 100, 0, 20000},
     unit_cost : {0 - 100, 0, 10000}, discount_applied : {0 - 5, 0}]

\* the most rows the table is filled with
MaxStoredItems == 2

\* OrderItem.objects.create(order=o, product=p, ...) in autocommit; the id
\* a refused insert took is given again
CreateOrderItem ==
    /\ pc = "idle"
    /\ Cardinality(db.items) < MaxStoredItems
    /\ \E v \in ItemValues, o \in db.orders, p \in db.products :
          LET row == [id |-> next_id.items, origin |-> "test",
                      order |-> o.id, product |-> p.id] @@ v
          IN  /\ db' = InsertOrderItem(db, row)
              /\ reply' = Some([op |-> "create", row |-> row,
                                raised |-> IF OrderItemAccepted(db, row)
                                           THEN None ELSE "IntegrityError"])
    /\ next_id' = [next_id EXCEPT !.items = Cardinality(db'.items) + 1]
    /\ UNCHANGED <<aux_vars,
                   season_vars, event_vars, handle_vars, tx, cache, redis_up,
                   created_customers, orders_objs, saved_orders>>

\* test_model_constraints.py, lines 7-9: the rows the test creates first
StoreInit ==
    /\ SeasonIdle
    /\ EventIdle
    /\ HandleIdle
    /\ db = [customers |-> {[id |-> 1, origin |-> "test",
                             region |-> "Sudeste", created_at |-> 0]},
             products |-> {[id |-> 1, origin |-> "test", name |-> "Notebook",
                            category |-> "Eletronicos",
                            suggested_price |-> 20000, cost |-> 10000]},
             orders |-> {[id |-> 1, origin |-> "test", customer |-> 1,
                          order_date |-> 0, delivery_date |-> 1,
                          status |-> "Completed", channel |-> "Online"]},
             items |-> {}]
    /\ tx = EmptyStore
    /\ next_id = [customers |-> 2, products |-> 2, orders |-> 2, items |-> 1]
    /\ cache = EmptyCache
    /\ redis_up = TRUE
    /\ created_customers = <<>>
    /\ orders_objs = <<>>
    /\ saved_orders = <<>>
    /\ reply = Nothing
    /\ AuxIdle

StoreNext == CreateOrderItem

SpecStore == StoreInit /\ [][StoreNext]_vars

(***************************************************************************)
(* Command.handle: the flush (lines 459-480), the publication and the end  *)
(* of the transaction that @transaction.atomic opened (line 187)           *)
(***************************************************************************)
\* the row of a draft order: the customer is the saved Customer object
OrderRow(draft) ==
    [customer |-> created_customers[draft.customer].id,
     order_date |-> draft.order_date, delivery_date |-> draft.delivery_date,
     status |-> draft.status, channel |-> draft.channel]

\* line 433: product = created_products[prod_idx], a saved Product object
ProductRef(products, prod_idx) == products[prod_idx].id

\* the row of a draft item once item.order is set (line 475)
ItemRow(draft, saved_order) ==
    [order |-> saved_order.id,
     product |-> ProductRef(created_products, draft.product),
     quantity |-> draft.quantity, unit_price |-> draft.unit_price,
     unit_cost |-> draft.unit_cost,
     discount_applied |-> draft.discount_applied]

LinkItemsOfFirstOrder(saved, drafts, i) ==
    IF saved = <<>> THEN <<>>
    ELSE [j \in 1..Len(drafts[1].temp_items) |->
             ItemRow(drafts[1].temp_items[j], saved[1])]

\* lines 469-476: the items of the draft at position i go to the saved
\* order at position i
RECURSIVE LinkItems(_, _, _)
LinkItems(saved, drafts, i) ==
    IF i > Len(saved) THEN <<>>
    ELSE [j \in 1..Len(drafts[i].temp_items) |->
             ItemRow(drafts[i].temp_items[j], saved[i])]
         \o LinkItems(saved, drafts, i + 1)

\* line 463: saved_orders = Order.objects.bulk_create(orders_objs)
SaveOrders ==
    /\ pc = "done"
    /\ saved_orders' = BulkCreate([i \in 1..Len(orders_objs) |->
                                      OrderRow(orders_objs[i])],
                                  next_id.orders)
    /\ tx' = [tx EXCEPT !.orders = @ \cup Rows(saved_orders')]
    /\ next_id' = [next_id EXCEPT !.orders = @ + Len(saved_orders')]
    /\ pc' = "orders_saved"
    /\ ops' = ops \o <<FlushStatements[1]>>
    /\ UNCHANGED <<options, runs, _instance,
                   season_vars, event_vars, profile, today, customer_metadata,
                   created_products, daily_volume, valid_indices,
                   buyer_indices, buyer_pos, order, n_items, bulk_qty, item,
                   orders_today, items_today, order_count, db, cache,
                   redis_up, created_customers, orders_objs, reply>>

\* lines 465-480: the items are linked and written; a row the database
\* refuses raises IntegrityError
SaveItems ==
    /\ pc = "orders_saved"
    /\ LET all_items_to_save ==
               BulkCreate(LinkItems(saved_orders, orders_objs, 1),
                          next_id.items)
       IN  IF \A row \in Rows(all_items_to_save) : OrderItemAccepted(tx, row)
           THEN /\ tx' = [tx EXCEPT !.items = @ \cup Rows(all_items_to_save)]
                /\ next_id' = [next_id EXCEPT
                                  !.items = @ + Len(all_items_to_save)]
                /\ pc' = "flushed"
                /\ UNCHANGED reply
           ELSE /\ tx' = db
                /\ pc' = "aborted"
                /\ reply' = Some([op |-> "bulk_create", at |-> pc,
                                  raised |-> "IntegrityError"])
                /\ UNCHANGED next_id
    /\ ops' = ops \o <<FlushStatements[2]>>
    /\ UNCHANGED <<options, runs, _instance,
                   season_vars, event_vars, profile, today, customer_metadata,
                   created_products, daily_volume, valid_indices,
                   buyer_indices, buyer_pos, order, n_items, bulk_qty, item,
                   orders_today, items_today, order_count, db, cache,
                   redis_up, created_customers, orders_objs, saved_orders>>

BulkWriteFailsAutocommit ==
    /\ pc \in {"start", "done", "orders_saved"}
    /\ db' = tx
    /\ pc' = "aborted"
    /\ reply' = Some([op |-> "bulk_create", at |-> pc,
                      raised |-> "DatabaseError"])
    /\ UNCHANGED <<aux_vars,
                   season_vars, event_vars, profile, today, customer_metadata,
                   created_products, daily_volume, valid_indices,
                   buyer_indices, buyer_pos, order, n_items, bulk_qty, item,
                   orders_today, items_today, order_count, tx, next_id,
                   cache, redis_up, created_customers, orders_objs,
                   saved_orders>>

\* lines 309, 310, 463, 480: a bulk_create that the database fails raises;
\* the exception leaves handle and the transaction is rolled back
BulkWriteFails ==
    /\ pc \in {"start", "done", "orders_saved"}
    /\ tx' = db
    /\ pc' = "aborted"
    /\ reply' = Some([op |-> "bulk_create", at |-> pc,
                      raised |-> "DatabaseError"])
    /\ UNCHANGED <<aux_vars,
                   season_vars, event_vars, profile, today, customer_metadata,
                   created_products, daily_volume, valid_indices,
                   buyer_indices, buyer_pos, order, n_items, bulk_qty, item,
                   orders_today, items_today, order_count, db, next_id,
                   cache, redis_up, created_customers, orders_objs,
                   saved_orders>>

\* lines 488-571: the queries run inside the transaction, the pipeline is
\* executed (twice, the second time with one SET of the same value); a
\* server that does not answer makes execute raise ConnectionError, which
\* nothing catches
Publish ==
    /\ pc = "flushed"
    /\ IF redis_up
       THEN /\ cache' = PublishAggregates(cache, tx, today)
            /\ pc' = "published"
            /\ UNCHANGED <<tx, reply>>
       ELSE /\ tx' = db
            /\ pc' = "aborted"
            /\ reply' = Some([op |-> "execute", at |-> pc,
                              raised |-> "ConnectionError"])
            /\ UNCHANGED cache
    /\ UNCHANGED <<aux_vars,
                   season_vars, event_vars, profile, today, customer_metadata,
                   created_products, daily_volume, valid_indices,
                   buyer_indices, buyer_pos, order, n_items, bulk_qty, item,
                   orders_today, items_today, order_count, db, next_id,
                   redis_up, created_customers, orders_objs, saved_orders>>

\* handle returns: the transaction is committed
Commit ==
    /\ pc = "published"
    /\ db' = tx
    /\ pc' = "committed"
    /\ UNCHANGED <<aux_vars,
                   season_vars, event_vars, profile, today, customer_metadata,
                   created_products, daily_volume, valid_indices,
                   buyer_indices, buyer_pos, order, n_items, bulk_qty, item,
                   orders_today, items_today, order_count, tx, next_id,
                   cache, redis_up, created_customers, orders_objs,
                   saved_orders, reply>>

(***************************************************************************)
(* Specification SpecRun: a whole run of handle, from the deletes to the   *)
(* commit, on a store that is empty or holds the rows of an earlier run,   *)
(* with a Redis server that answers or not.                                *)
(***************************************************************************)
\* today, as a day of the run
RunDays == 1

\* the rows of an earlier run
OldData ==
    [customers |-> {[id |-> 1, origin |-> "before", region |-> "Norte",
                     created_at |-> 0]},
     products |-> {[id |-> 1, origin |-> "before", name |-> "Livros",
                    category |-> "Livros", suggested_price |-> 5000,
                    cost |-> 3000, lifecycle |-> "Stable"]},
     orders |-> {[id |-> 1, origin |-> "before", customer |-> 1,
                  order_date |-> 0, delivery_date |-> 2,
                  status |-> "Completed", channel |-> "Online"]},
     items |-> {[id |-> 1, origin |-> "before", order |-> 1, product |-> 1,
                 quantity |-> 1, unit_price |-> 5000, unit_cost |-> 3000,
                 discount_applied |-> 0]}]

RunInit ==
    /\ HandleStart
    /\ profile = "run"
    /\ today = RunDays
    /\ db \in {EmptyStore, OldData}
    /\ tx = db
    /\ next_id = [t \in {"customers", "products", "orders", "items"} |->
                     Cardinality(db[t]) + 1]
    /\ cache = EmptyCache
    /\ redis_up \in BOOLEAN
    /\ created_customers = <<>>
    /\ orders_objs = <<>>
    /\ saved_orders = <<>>
    /\ reply = Nothing
    /\ AuxIdle

RunNext ==
    \/ Next
    \/ SaveOrders
    \/ SaveItems
    \/ BulkWriteFails
    \/ Publish
    \/ Commit

SpecRun == RunInit /\ [][RunNext]_vars

(***************************************************************************)
(* core/data_utils.py: the readers of the cache; Specification SpecPublish:*)
(* runs of handle one after the other, each leaving the data set it        *)
(* generated and publishing its aggregates, and then a reader.  A reader   *)
(* changes neither the store nor the cache, so the runs that could follow  *)
(* a read are those that follow the state it read: the behaviours end with *)
(* the read.  Amounts are in cents and quantities are integers: float() of *)
(* a total, its decimal string in Redis and float() or int() of that       *)
(* string give back the same number.                                       *)
(***************************************************************************)
\* the runs of handle in a row
MaxRuns == 2

\* the orders a run generates at most
MaxOrders == 2

\* the largest limit asked of get_top_products
MaxLimit == 2

\* an order of a generated data set: its customer, status and date and the
\* product and quantity of each of its items
OrderDrafts ==
    [customer : {1, 2}, status : Rows(STATUS), order_date : {today - 1, today},
     items : {<<[product |-> 1, quantity |-> 1],
                [product |-> 2, quantity |-> 2]>>}]

\* lines 442-449 and 469-476: the item rows of the orders from position i
RECURSIVE GeneratedItems(_, _, _, _)
GeneratedItems(orders, products, drafts, i) ==
    IF i > Len(orders) THEN <<>>
    ELSE [j \in 1..Len(drafts[i].items) |->
             LET product == products[drafts[i].items[j].product]
             IN  [order |-> orders[i].id, product |-> product.id,
                  quantity |-> drafts[i].items[j].quantity,
                  unit_price |-> product.suggested_price,
                  unit_cost |-> product.cost, discount_applied |-> 0]]
         \o GeneratedItems(orders, products, drafts, i + 1)

\* lines 225-480: the rows of a run that generated two customers, two
\* products and the orders of drafts
GeneratedData(ids, drafts) ==
    LET customers == BulkCreate(<<NewCustomer(REGIONS[1], 0),
                                  NewCustomer(REGIONS[2], 0)>>,
                                ids.customers)
        products  == BulkCreate(<<NewProduct("Roupas", 0, "Stable"),
                                  NewProduct("Livros", 0, "Stable")>>,
                                ids.products)
        orders    == BulkCreate([i \in 1..Len(drafts) |->
                                    [customer |->
                                         customers[drafts[i].customer].id,
                                     order_date |-> drafts[i].order_date,
                                     delivery_date |->
                                         drafts[i].order_date + 2,
                                     status |-> drafts[i].status,
                                     channel |-> CHANNELS[1]]],
                                ids.orders)
        items     == BulkCreate(GeneratedItems(orders, products, drafts, 1),
                                ids.items)
    IN  [customers |-> Rows(customers), products |-> Rows(products),
         orders |-> Rows(orders), items |-> Rows(items)]

\* lines 187-573: a whole run of handle with the cache reachable: the old
\* rows are deleted, the new ones written, the aggregates published, the
\* transaction committed
RunHandle ==
    /\ pc \in {"ready", "published", "republished"}
    /\ reply = Nothing
    /\ redis_up
    /\ (next_id.customers - 1) \div 2 < MaxRuns
    /\ \E n \in 0..MaxOrders :
          \E drafts \in [1..n -> OrderDrafts] :
             LET data == GeneratedData(next_id, drafts)
             IN  /\ db' = data
                 /\ tx' = data
                 /\ cache' = PublishAggregates(cache, data, today)
                 /\ next_id' = [t \in DOMAIN next_id |->
                                   next_id[t] + Cardinality(data[t])]
    /\ pc' = "published"
    /\ ops' = ops \o DeleteStatements \o PopulationStatements \o FlushStatements
    /\ UNCHANGED <<options, runs, _instance,
                   season_vars, event_vars, profile, today, customer_metadata,
                   created_products, daily_volume, valid_indices,
                   buyer_indices, buyer_pos, order, n_items, bulk_qty, item,
                   orders_today, items_today, order_count, redis_up,
                   created_customers, orders_objs, saved_orders, reply>>

\* lines 488-571 once more, on the data as they are
Republish ==
    /\ pc = "published"
    /\ reply = Nothing
    /\ redis_up
    /\ cache' = PublishAggregates(cache, db, today)
    /\ pc' = "republished"
    /\ UNCHANGED <<aux_vars,
                   season_vars, event_vars, profile, today, customer_metadata,
                   created_products, daily_volume, valid_indices,
                   buyer_indices, buyer_pos, order, n_items, bulk_qty, item,
                   orders_today, items_today, order_count, db, tx, next_id,
                   redis_up, created_customers, orders_objs, saved_orders,
                   reply>>

\* client.get(key): the value of the key, or None
Get(entries, key) ==
    IF \E e \in entries : e.key = key
    THEN Some((CHOOSE e \in entries : e.key = key).val)
    ELSE Nothing

\* data_utils.py 134-156: one GET per region of the list of line 145
get_regional_sales ==
    /\ pc \in {"published", "republished"}
    /\ reply = Nothing
    /\ reply' = Some([op |-> "get_regional_sales",
                      vendas |->
                          IF ~redis_up THEN {}
                          ELSE {LET valor == Get(cache.vendas_regiao,
                                                 REGIONS[i])
                                IN  [regiao |-> REGIONS[i],
                                     valor |-> IF valor # Nothing
                                               THEN valor[1] ELSE 0] :
                                i \in 1..Len(REGIONS)}])
    /\ UNCHANGED <<aux_vars,
                   season_vars, event_vars, handle_vars, db, tx, next_id,
                   cache, redis_up, created_customers, orders_objs,
                   saved_orders>>

\* the names of the products in byte order
NameOrder == <<"Livros", "Roupas">>

NameRank(name) == CHOOSE i \in 1..Len(NameOrder) : NameOrder[i] = name

\* the order of a sorted set: by score, members of one score in byte order
Last(members) ==
    CHOOSE m \in members :
       \A o \in members :
          \/ o.score < m.score
          \/ o.score = m.score /\ NameRank(o.member) <= NameRank(m.member)

RECURSIVE Descending(_)
Descending(members) ==
    IF members = {} THEN <<>>
    ELSE <<Last(members)>> \o Descending(members \ {Last(members)})

\* ZREVRANGE key start stop: a negative index counts from the end
ZRevRange(members, start, stop) ==
    LET n    == Cardinality(members)
        from == IF start < 0 THEN Max(n + start, 0) ELSE start
        to   == IF stop < 0 THEN n + stop ELSE Min(stop, n - 1)
    IN  SubSeq(Descending(members), from + 1, to + 1)

\* data_utils.py 109-132: zrevrange("top_produtos", 0, limit - 1,
\* withscores=True), each score through int()
get_top_products(limit) ==
    /\ pc \in {"published", "republished"}
    /\ reply = Nothing
    /\ reply' = Some([op |-> "get_top_products", limit |-> limit,
                      produtos |->
                          IF ~redis_up THEN <<>>
                          ELSE LET produtos ==
                                       ZRevRange(cache.top_produtos.members,
                                                 0, limit - 1)
                               IN  [i \in 1..Len(produtos) |->
                                       <<produtos[i].member,
                                         produtos[i].score>>]])
    /\ UNCHANGED <<aux_vars,
                   season_vars, event_vars, handle_vars, db, tx, next_id,
                   cache, redis_up, created_customers, orders_objs,
                   saved_orders>>

PublishInit ==
    /\ SeasonIdle
    /\ EventIdle
    /\ pc = "ready"
    /\ profile = "publish"
    /\ today = RunDays
    /\ customer_metadata = <<>>
    /\ created_products = <<>>
    /\ daily_volume = 0
    /\ valid_indices = {}
    /\ buyer_indices = <<>>
    /\ buyer_pos = 0
    /\ order = Nothing
    /\ n_items = 0
    /\ bulk_qty = NoBulk
    /\ item = Nothing
    /\ orders_today = <<>>
    /\ items_today = 0
    /\ order_count = <<>>
    /\ StoreIdle
    /\ AuxIdle

PublishNext ==
    \/ RunHandle
    \/ Republish
    \/ get_regional_sales
    \/ \E limit \in 0..MaxLimit : get_top_products(limit)

SpecPublish == PublishInit /\ [][PublishNext]_vars

(***************************************************************************)
(* Command.handle replayed from its seed; Specification SpecSeed: runs of  *)
(* handle with the same options, one after the other, each on the day the  *)
(* clock shows.  The three generators are seeded with 42 at lines 191-193, *)
(* so the value a generator gives at a position of its stream is the same  *)
(* in every run; Draw stands for it, in percent of the range.  The replay  *)
(* follows the draws that decide the counts, the enrolment dates, the      *)
(* volume of a day, its buyers and the items of an order, and counts the   *)
(* others.                                                                 *)
(***************************************************************************)
\* lines 191-193: Faker.seed(42), np.random.seed(42), random.seed(42)
SEED == 42

\* the runs replayed, and the latest day the clock shows
MaxReplays == 2
MaxToday == 2

\* the generators: random, np.random, Faker
PyStream == 1
NpStream == 2
FakerStream == 3

\* the value at position k of a stream when the seed is fixed
DrawOf(seed, stream, k) ==
    ((seed + stream) * (k + 3) * 17 + k * k * 5) % 101

\* the value at position k of a stream seeded at lines 191-193
Draw(stream, k) == DrawOf(SEED, stream, k)

\* int(per_year * random.uniform(lo, hi)) at position u
NumNewAt(per_year, lo, hi, u) == (per_year * Uniform(lo, hi, u)) \div 100

\* the members of a set of numbers in ascending order
RECURSIVE Ascending(_)
Ascending(set) ==
    IF set = {} THEN <<>>
    ELSE LET least == CHOOSE x \in set : \A y \in set : x <= y
         IN  <<least>> \o Ascending(set \ {least})

\* line 206: today = date.today()
Today(clock) == clock

\* lines 188-320: the seeds, the window and the population of a run.  Of the
\* stream of random a product takes 2 values and a customer 3, of the stream
\* of Faker a product takes 3 and a customer 5 (the enrolment date first),
\* of the stream of np.random each takes 1.
StartReplay ==
    /\ pc = "idle"
    /\ Len(runs) < MaxReplays
    /\ \A i \in 1..Len(runs) : runs[i].done
    /\ \E clock \in 0..MaxToday :
          /\ \A i \in 1..Len(runs) : runs[i].today <= clock
          /\ LET opts == options[1]
                 n_products ==
                     NumNewAt(opts.products_per_year, 80, 120,
                              Draw(PyStream, 1))
                 n_customers ==
                     NumNewAt(opts.customers_per_year, 70, 130,
                              Draw(PyStream, 2 * n_products + 2))
                 created_at ==
                     [c \in 1..n_customers |->
                         (Min(364, Today(clock))
                          * Draw(FakerStream,
                                 3 * n_products + 5 * (c - 1) + 1)) \div 100]
             IN  runs' = Append(runs,
                     [today |-> Today(clock), day |-> 0,
                      products |-> n_products, customers |-> created_at,
                      py |-> 2 * n_products + 3 * n_customers + 2,
                      np |-> n_products + n_customers + 1,
                      orders |-> <<>>, done |-> FALSE])
    /\ UNCHANGED <<season_vars, event_vars, handle_vars, store_vars, ops,
                   options, _instance>>

\* lines 378-454 for the buyer at position b of the day: of the stream of
\* random an order takes 4 values and 3 more for each item
ReplayOrder(run, buyers, b) ==
    LET at == run.py + 1 + 7 * (b - 1)
    IN  [order_date |-> run.day, customer |-> buyers[b],
         n_items |-> 1 + (Draw(PyStream, at + 2) * 3) \div 101]

\* lines 323-457: one day of the loop: the volume, the customers enrolled by
\* the day, the buyers np.random.choice takes among them, their orders
ReplayDay ==
    /\ pc = "idle"
    /\ runs # <<>>
    /\ LET r     == Len(runs)
           run   == runs[r]
           daily == (Draw(NpStream, run.np + 1) * MaxVolume) \div 100
           valid == Ascending({c \in 1..Len(run.customers) :
                                  run.customers[c] <= run.day})
           size  == Min(daily, Len(valid))
           turn  == IF valid = <<>> THEN 0
                    ELSE Draw(NpStream, run.np + 2) % Len(valid)
           buyers == [b \in 1..size |->
                         valid[((turn + b - 1) % Len(valid)) + 1]]
       IN  /\ ~run.done
           /\ IF run.day > run.today
              THEN runs' = [runs EXCEPT ![r].done = TRUE]
              ELSE runs' = [runs EXCEPT
                      ![r].orders = @ \o [b \in 1..size |->
                                            ReplayOrder(run, buyers, b)],
                      ![r].py = @ + 1 + 7 * size,
                      ![r].np = @ + 2 + 2 * size,
                      ![r].day = @ + 1]
    /\ UNCHANGED <<season_vars, event_vars, handle_vars, store_vars, ops,
                   options, _instance>>

\* the options of the replayed runs
SeedOptions ==
    [years : {1}, customers_per_year : {1, 2, 3}, products_per_year : {1, 2}]

SeedInit ==
    /\ SeasonIdle
    /\ EventIdle
    /\ HandleIdle
    /\ StoreIdle
    /\ ops = <<>>
    /\ options \in {Some(o) : o \in SeedOptions}
    /\ runs = <<>>
    /\ _instance = None

SeedNext == StartReplay \/ ReplayDay

SpecSeed == SeedInit /\ [][SeedNext]_vars

(***************************************************************************)
(* Command.handle with the options of the command line; Specification      *)
(* SpecOptions: whole runs of handle for options that argparse accepts     *)
(* (type=int, lines 27-42), negative ones included.                        *)
(***************************************************************************)
\* int(x) of Python truncates towards zero; x in hundredths
Trunc(x) == IF x >= 0 THEN x \div 100 ELSE 0 - ((0 - x) \div 100)

\* range(n) is empty when n <= 0
RangeLen(n) == Max(n, 0)

\* lines 206-207 and 323: today in days from start_date, 1 January of the
\* year today.year - years, which lies after today when years < 0
WindowDays(years) == IF years < 0 THEN 0 - 1 ELSE RunDays

\* lines 225-320 for the options given: no year when years <= 0, no product
\* or customer when the count drawn is not positive
GenerateFromOptions ==
    /\ pc = "start"
    /\ options # Nothing
    /\ LET opts == options[1]
           Drawn(per_year, lo, hi) ==
               IF RangeLen(opts.years) = 0 THEN {0}
               ELSE {RangeLen(Trunc(per_year * Uniform(lo, hi, u))) :
                        u \in UnitDraws}
       IN  /\ \E n \in Drawn(opts.products_per_year, 80, 120) :
                 \E all_products \in [1..n -> ProductDrafts] :
                    created_products' =
                        BulkCreate(all_products, next_id.products)
           /\ \E n \in Drawn(opts.customers_per_year, 70, 130) :
                 /\ customer_metadata' \in [1..n -> CustomerDrafts]
                 /\ order_count' = [c \in 1..n |-> 0]
                 /\ \E regions \in [1..n -> RegionDraws] :
                       created_customers' =
                           BulkCreate([c \in 1..n |->
                                          NewCustomer(regions[c],
                                              customer_metadata'[c].created_at)],
                                      next_id.customers)
    /\ tx' = [tx EXCEPT !.products = @ \cup Rows(created_products'),
                        !.customers = @ \cup Rows(created_customers')]
    /\ next_id' = [next_id EXCEPT
                      !.products = @ + Len(created_products'),
                      !.customers = @ + Len(created_customers')]
    /\ current_date' = 0
    /\ pc' = "day"
    /\ ops' = ops \o PopulationStatements
    /\ UNCHANGED <<options, runs, _instance, season_vars, market_event, event_end_date,
                   event_call, started, events_left, profile, today,
                   daily_volume, valid_indices, buyer_indices, buyer_pos,
                   order, n_items, bulk_qty, item, orders_today, items_today,
                   db, cache, redis_up, orders_objs, saved_orders, reply>>

\* the values given to --years, --customers-per-year, --products-per-year
OptionSets ==
    [years : {0 - 1, 1}, customers_per_year : {0 - 2, CustomersPerYear},
     products_per_year : {0 - 1, ProductsPerYear}]

OptionsInit ==
    /\ HandleStart
    /\ profile = "run"
    /\ options \in {Some(o) : o \in OptionSets}
    /\ today = WindowDays(options[1].years)
    /\ db \in {EmptyStore, OldData}
    /\ tx = db
    /\ next_id = [t \in {"customers", "products", "orders", "items"} |->
                     Cardinality(db[t]) + 1]
    /\ cache = EmptyCache
    /\ redis_up = TRUE
    /\ created_customers = <<>>
    /\ orders_objs = <<>>
    /\ saved_orders = <<>>
    /\ reply = Nothing
    /\ ops = <<>>
    /\ runs = <<>>
    /\ _instance = None

OptionsNext ==
    \/ DeleteOldData
    \/ GenerateFromOptions
    \/ BeginDay
    \/ NewOrder
    \/ NewItem
    \/ ItemError
    \/ EndDay
    \/ FinishLoop
    \/ SaveOrders
    \/ SaveItems
    \/ Publish
    \/ Commit

SpecOptions == OptionsInit /\ [][OptionsNext]_vars

(***************************************************************************)
(* Specification SpecAgain: the day loop of SpecEvent run to its end, and  *)
(* handle then called again on the same Command object.  market_event and  *)
(* event_end_date are attributes of the object, set in __init__ (lines     *)
(* 22-25); current_date is a local of handle (line 321).  runs logs what   *)
(* each later run found on the object.                                     *)
(***************************************************************************)
\* the later runs on the object
MaxAgain == 1

\* the day loop is over (line 324) and handle is called once more: the
\* loop starts again at start_date, the attributes of the object are as
\* the earlier run left them.  started and event_call, the bookkeeping of
\* the calls of check_market_event, start over with the run.
HandleAgain ==
    /\ current_date > EventDays
    /\ Len(runs) < MaxAgain
    /\ runs' = Append(runs, [market_event |-> market_event,
                             event_end_date |-> event_end_date])
    /\ current_date' = 0
    /\ event_call' = Nothing
    /\ started' = Nothing
    /\ UNCHANGED <<ops, options, _instance, season_vars, market_event,
                   event_end_date, events_left, handle_vars, store_vars>>

SpecAgain == EventInit /\ [][EventDay \/ HandleAgain]_vars

(***************************************************************************)
(* Specification SpecFlush: the runs of SpecRun, and those in which the    *)
(* bulk write of the orders returns a list shorter than the list of draft  *)
(* orders.  Django's bulk_create returns the list it was given; the link   *)
(* loop of lines 469-476 takes its length from the list returned.          *)
(***************************************************************************)
\* line 463 when the list returned stops before the last draft order
SaveOrdersShort ==
    /\ pc = "done"
    /\ orders_objs # <<>>
    /\ LET saved == BulkCreate([i \in 1..Len(orders_objs) |->
                                   OrderRow(orders_objs[i])],
                               next_id.orders)
       IN  /\ \E n \in 0..(Len(saved) - 1) :
                 saved_orders' = SubSeq(saved, 1, n)
           /\ tx' = [tx EXCEPT !.orders = @ \cup Rows(saved)]
           /\ next_id' = [next_id EXCEPT !.orders = @ + Len(saved)]
    /\ pc' = "orders_saved"
    /\ ops' = ops \o <<FlushStatements[1]>>
    /\ UNCHANGED <<options, runs, _instance, season_vars, event_vars,
                   profile, today, customer_metadata, created_products,
                   daily_volume, valid_indices, buyer_indices, buyer_pos,
                   order, n_items, bulk_qty, item, orders_today, items_today,
                   order_count, db, cache, redis_up, created_customers,
                   orders_objs, reply>>

FlushNext == RunNext \/ SaveOrdersShort

SpecFlush == RunInit /\ [][FlushNext]_vars

(***************************************************************************)
(* Claims                                                                  *)
(***************************************************************************)

\* C1: once an event of kind k is started on date d with drawn duration n,
\* every call of check_market_event for a date in d..d+n-1 returns k, draws
\* no new event on the days after d, and leaves the stored kind and the
\* stored end date (d+n) as they are.
C1_ActiveEventPersists ==
    (started # Nothing /\ event_call # Nothing
        /\ event_call[1].date >= started[1].date
        /\ event_call[1].date <= started[1].date + started[1].duration - 1)
    => /\ event_call[1].ret = started[1].kind
       /\ market_event = started[1].kind
       /\ event_end_date = started[1].date + started[1].duration
       /\ (event_call[1].date > started[1].date => ~event_call[1].drew)

\* C1 witness: the call on the last day of a seven-day event returned the
\* kind without drawing.
C1_Witness ==
    /\ started # Nothing /\ event_call # Nothing
    /\ started[1].duration = MARKET_EVENT_MAX_DURATION
    /\ event_call[1].date = started[1].date + started[1].duration - 1
    /\ ~event_call[1].drew
    /\ event_call[1].ret = started[1].kind

\* C2: a call that finds no event active (none stored, or current_date >=
\* end_date) ends in exactly one of two states: an event of a catalog kind
\* is stored with end_date = current_date + duration, duration in 3..7, and
\* that kind is returned; or no kind is stored and None is returned.
C2_DrawOutcome ==
    (event_call # Nothing /\ event_call[1].drew)
    => LET active == /\ market_event \in
                          {"viral", "marketing", "site_down", "logistics_crisis"}
                     /\ event_end_date # NoDate
                     /\ event_end_date - event_call[1].date \in 3..7
                     /\ event_call[1].ret = market_event
           noevent == market_event = None /\ event_call[1].ret = None
       IN  (active /\ ~noevent) \/ (noevent /\ ~active)

\* C2 witness: an event ran out (current_date >= end_date) and the draw of
\* that day failed: no kind is stored, None is returned.
C2_Witness ==
    /\ event_call # Nothing /\ event_call[1].drew
    /\ event_end_date # NoDate /\ event_call[1].date >= event_end_date
    /\ market_event = None /\ event_call[1].ret = None

\* C3: for every date and every outcome of the draws the value
\* get_seasonality_multiplier returns is at least
\* MIN_SEASONALITY_MULTIPLIER (0.5).
C3_SeasonalityFloor ==
    season # Nothing => season[1].result >= 50 * Hundredth

\* C3 witness: the product of the draws fell below 0.5 and 0.5 was returned.
C3_Witness ==
    /\ season # Nothing
    /\ season[1].m < 50 * Hundredth
    /\ season[1].result = 50 * Hundredth

\* the seasonal rules in their priority order, and the dates each is for
RulePriority ==
    <<"black_friday", "cyber_monday", "christmas", "post_christmas",
      "january", "anniversary">>

RuleMatches(rule, d) ==
    CASE rule = "black_friday" -> d.month = 11 /\ d.day \in 20..30
      [] rule = "cyber_monday" -> d.month = 12 /\ d.day \in 1..7 /\ d.weekday = 0
      [] rule = "christmas" -> d.month = 12 /\ d.day \in 10..24
      [] rule = "post_christmas" -> d.month = 12 /\ d.day >= 25
      [] rule = "january" -> d.month = 1
      [] rule = "anniversary" -> d.month = 5

MatchingRules(d) == {i \in 1..Len(RulePriority) : RuleMatches(RulePriority[i], d)}

FirstMatch(d) ==
    IF MatchingRules(d) = {} THEN <<>>
    ELSE <<RulePriority[CHOOSE i \in MatchingRules(d) :
                            \A j \in MatchingRules(d) : i <= j]>>

\* what C4 says of the weekend boost and of the value: the boost is applied
\* exactly on Saturdays and Sundays, whatever rule matches, and the value is
\* 1.0 times the weekend draw (if any) times the factor of the rules that
\* contributed
WeekendAndProduct(s) ==
    /\ s.weekend = (s.date.weekday \in {5, 6})
    /\ s.m * 10 = (IF s.date.weekday \in {5, 6} THEN s.wdraw ELSE 100)
                  * (IF s.rules = <<>> THEN 100 * 100 ELSE s.factor)

\* C4 as stated: on every date the weekend boost is applied on Saturday and
\* Sunday, and exactly one seasonal rule contributes, the first matching one.
C4_ExactlyOneRule ==
    season # Nothing
    => /\ WeekendAndProduct(season[1])
       /\ Len(season[1].rules) = 1
       /\ season[1].rules = FirstMatch(season[1].date)

\* C4 amended: on every date the weekend boost is applied on Saturday and
\* Sunday whatever rule matches, and at most one seasonal rule contributes:
\* the first matching one in the priority order when a rule matches, none
\* when no rule matches; no date receives the multipliers of two rules.
C4_AtMostOneRule ==
    season # Nothing
    => /\ WeekendAndProduct(season[1])
       /\ Len(season[1].rules) <= 1
       /\ season[1].rules = FirstMatch(season[1].date)

\* C4 witness: a Saturday in the Black Friday window got the weekend boost
\* and the Black Friday factor.
C4_Witness ==
    /\ season # Nothing
    /\ season[1].date = [month |-> 11, day |-> 25, weekday |-> 5]
    /\ season[1].weekend
    /\ season[1].rules = <<"black_friday">>
    /\ season[1].wdraw = 130

\* the values get_seasonality_multiplier returns on the dates no seasonal
\* rule matches
NonPromoSeasonality ==
    {get_seasonality_multiplier(d, uw, ur).result :
        d \in {x \in Dates : MatchingRules(x) = {}},
        uw \in UnitDraws, ur \in UnitDraws}

\* C5: with the same growth factor and the same market event, the mean of
\* the daily order count of a date in the Black Friday window (20-30
\* November) is strictly higher than that of every date no seasonal rule
\* matches, for every outcome of the draws.
C5_BlackFridayMeanHigher ==
    (mean # Nothing /\ season[1].date.month = 11 /\ season[1].date.day \in 20..30)
    => \A r \in NonPromoSeasonality :
          mean[1].value > DailyMean(r, mean[1].years, mean[1].event)

\* C5 witness: a Black Friday weekday with the lowest variance draw, while
\* the site is down.
C5_Witness ==
    /\ mean # Nothing
    /\ season[1].date = [month |-> 11, day |-> 20, weekday |-> 2]
    /\ season[1].factor = 70 * 350
    /\ mean[1].event = "site_down"
    /\ mean[1].years = 1

\* the number of orders of the running day that went to customer c
CountToday(c) ==
    Cardinality({i \in 1..Len(orders_today) : orders_today[i] = c})

\* the customers that were eligible when the running day began: enrolled on
\* or before the day, and under their cap before the orders of the day
EligibleAtDayStart ==
    {c \in DOMAIN customer_metadata :
        /\ customer_metadata[c].created_at <= current_date
        /\ customer_metadata[c].purchase_count - CountToday(c)
               < customer_metadata[c].max_purchases}

\* C6: every order handle generates, on any day of the window, has
\* delivery_date >= order_date and order_date >= the created_at of the
\* customer it is assigned to.
C6_OrderDates ==
    order # Nothing
    => /\ order[1].delivery_date >= order[1].order_date
       /\ order[1].order_date
              >= customer_metadata[order[1].customer].created_at

\* C6 witness: an order on the last day of the window for a customer
\* enrolled on that very day, delivered with the longest logistic delay.
C6_Witness ==
    /\ order # Nothing
    /\ order[1].order_date = today
    /\ customer_metadata[order[1].customer].created_at = today
    /\ order[1].delivery_date = order[1].order_date + 90

\* C7: in every state of a run each purchase_count is at most max_purchases
\* and equals the number of orders generated for the customer so far; a
\* customer whose purchase_count has reached max_purchases gets no further
\* order and is in no later choice of buyers, and no error is raised once a
\* cap is reached.
C7_PurchaseCap ==
    /\ [](\A c \in DOMAIN customer_metadata :
            /\ customer_metadata[c].purchase_count
                   <= customer_metadata[c].max_purchases
            /\ customer_metadata[c].purchase_count = order_count[c]
            /\ (customer_metadata[c].purchase_count
                    = customer_metadata[c].max_purchases => pc # "error"))
    /\ [][\A c \in DOMAIN customer_metadata :
            customer_metadata[c].purchase_count
                >= customer_metadata[c].max_purchases
            => /\ order_count'[c] = order_count[c]
               /\ (pc = "day" =>
                     \A i \in 1..Len(buyer_indices') : buyer_indices'[i] # c)
         ]_vars

\* C7 witness: a day with a positive volume ends with a customer at its cap
\* who got no order that day, while another customer did.
C7_Witness ==
    /\ pc = "end_day"
    /\ daily_volume > 0
    /\ orders_today # <<>>
    /\ \E c \in DOMAIN customer_metadata :
          /\ customer_metadata[c].purchase_count
                 = customer_metadata[c].max_purchases
          /\ order_count[c] = customer_metadata[c].max_purchases
          /\ CountToday(c) = 0

\* C8: on every day the orders generated are as many as min(daily draw,
\* number of eligible customers), and their customers are pairwise distinct
\* members of the eligible pool.
C8_BuyersOfTheDay ==
    /\ \A c \in DOMAIN customer_metadata : CountToday(c) <= 1
    /\ \A i \in 1..Len(orders_today) : orders_today[i] \in EligibleAtDayStart
    /\ (pc = "end_day" =>
           Len(orders_today)
               = Min(daily_volume, Cardinality(EligibleAtDayStart)))

\* C8 witness: a day whose draw exceeds the pool ends with one order for
\* each of two eligible customers.
C8_Witness ==
    /\ pc = "end_day"
    /\ Cardinality(EligibleAtDayStart) = 2
    /\ daily_volume > 2
    /\ Len(orders_today) = 2
    /\ orders_today[1] # orders_today[2]

\* C9: on a day with no eligible customer, whatever the daily volume, handle
\* generates no order and no item, raises no error and goes on to the next
\* day.
C9_NoEligibleCustomer ==
    /\ []((pc \in {"order", "item", "end_day", "error"}
              /\ EligibleAtDayStart = {})
          => /\ pc = "end_day"
             /\ orders_today = <<>>
             /\ items_today = 0)
    /\ [][(pc = "end_day" /\ EligibleAtDayStart = {})
          => (pc' = "day" /\ current_date' = current_date + 1)]_vars

\* C9 witness: the second day of a run is reached after a first day that
\* drew the largest volume while every customer was still to enrol.
C9_Witness ==
    /\ pc = "end_day"
    /\ daily_volume = MaxVolume
    /\ customer_metadata # <<>>
    /\ EligibleAtDayStart = {}
    /\ orders_today = <<>>
    /\ items_today = 0
    /\ current_date < today

\* C10: every OrderItem handle generates has quantity > 0, unit_price >= 0,
\* unit_cost >= 0 and discount_applied >= 0, bulk purchases and price
\* errors included.
C10_ItemConstraints ==
    item # Nothing
    => /\ item[1].quantity > 0
       /\ item[1].unit_price >= 0
       /\ item[1].unit_cost >= 0
       /\ item[1].discount_applied >= 0

\* C10 witness: the single item of a bulk purchase of 50 units, sold at the
\* price error of 1.99.
C10_Witness ==
    /\ item # Nothing
    /\ bulk_qty = 50
    /\ item[1].quantity = 50
    /\ item[1].unit_price = 199
    /\ n_items = 1

\* C11: an insert of an OrderItem with quantity = 0 or with a negative
\* unit_price, unit_cost or discount_applied raises IntegrityError, stores
\* no row and leaves the stored OrderItems as they were; no stored row
\* breaks one of the four constraints.
C11_RejectedInsert ==
    /\ [](\A row \in db.items :
             /\ row.quantity > 0 /\ row.unit_price >= 0
             /\ row.unit_cost >= 0 /\ row.discount_applied >= 0)
    /\ [][(/\ reply' # Nothing
           /\ reply'[1].op = "create"
           /\ \/ reply'[1].row.quantity = 0
              \/ reply'[1].row.unit_price < 0
              \/ reply'[1].row.unit_cost < 0
              \/ reply'[1].row.discount_applied < 0)
          => /\ reply'[1].raised = "IntegrityError"
             /\ db'.items = db.items]_vars

\* C11 witness: an insert with quantity = 0 and every other value valid was
\* refused while the table held a row, and the table holds that row only.
C11_Witness ==
    /\ reply # Nothing
    /\ reply[1].op = "create"
    /\ reply[1].raised = "IntegrityError"
    /\ reply[1].row.quantity = 0
    /\ reply[1].row.unit_price = 20000
    /\ reply[1].row.unit_cost = 10000
    /\ reply[1].row.discount_applied = 0
    /\ Cardinality(db.items) = 1
    /\ \A row \in db.items : row.id # reply[1].row.id

\* C12: after the flush of handle every persisted item references a
\* persisted order of the run, and every persisted order of the run has at
\* least one item.
Flushed == pc \in {"flushed", "published", "committed"}

C12_ItemsAndOrders ==
    Flushed =>
        /\ \A it \in tx.items :
               \E o \in tx.orders : o.id = it.order /\ o.origin = "run"
        /\ \A o \in tx.orders :
               o.origin = "run" => \E it \in tx.items : it.order = o.id
        /\ pc = "committed" => db = tx

C12_Witness ==
    /\ pc = "committed"
    /\ Cardinality(db.orders) >= 2
    /\ Cardinality(db.items) > Cardinality(db.orders)

\* C13: after a run of handle the product of every persisted item is one of
\* the products the same run generated and persisted.
C13_ProductsOfTheRun ==
    /\ Flushed =>
           \A it \in tx.items :
              \E i \in 1..Len(created_products) :
                 /\ created_products[i].id = it.product
                 /\ created_products[i] \in tx.products
                 /\ created_products[i].origin = "run"
    /\ pc = "committed" =>
           \A it \in db.items : \E p \in db.products : p.id = it.product

\* the run followed an earlier one, whose product had the first id
C13_Witness ==
    /\ pc = "committed"
    /\ db.items # {}
    /\ \A p \in db.products : p.id > 1

\* C14: a run of one year that is asked for N customers and M products
\* persists exactly N customers and exactly M products, whatever the
\* variance draws of the year.
C14_ExactCounts ==
    pc = "committed" =>
        /\ Cardinality(db.customers) = CustomersPerYear
        /\ Cardinality(db.products) = ProductsPerYear

\* C15: when a bulk write of handle fails the run aborts and the relational
\* store stays as it was before the run: the store changes only when a run
\* commits, an aborted run never commits, and no row of the run is visible
\* before the commit.
WriteFailed ==
    /\ pc = "aborted"
    /\ reply # Nothing
    /\ reply[1].op = "bulk_create"

C15_AbortLeavesStore ==
    /\ [](pc # "committed" =>
             \A t \in DOMAIN db : \A row \in db[t] : row.origin # "run")
    /\ [][/\ pc' # "committed" => db' = db
          /\ pc = "aborted" => pc' = "aborted"]_vars

\* the write of the items failed after customers, products and orders had
\* been written and the rows of the earlier run deleted
C15_Witness ==
    /\ WriteFailed
    /\ reply[1].at = "orders_saved"
    /\ saved_orders # <<>>
    /\ db = OldData

\* C16: when the cache is unreachable at the publication the run does not
\* fail: the step that follows the flush does not abort the run and the
\* rows the run wrote stay.
C16_CacheDownRunCompletes ==
    [][(pc = "flushed" /\ ~redis_up) => (pc' # "aborted" /\ tx' = tx)]_vars

\* C17: no item of a Pending, Cancelled or Returned order contributes to a
\* value handle publishes: the revenue and the order count of each day, the
\* quantity of each product, the revenue of each region and the number of
\* active customers are those of the Completed orders alone.
Published == pc \in {"published", "republished"}

CompletedOrders == {o \in db.orders : o.status = "Completed"}

ItemsOf(orders) == {it \in db.items : \E o \in orders : o.id = it.order}

HasEntry(entries, key, val) ==
    \E e \in entries : e.key = key /\ e.val = val

C17_CompletedOnly ==
    Published =>
        /\ \A d \in {o.order_date : o \in CompletedOrders} :
              LET orders == {o \in CompletedOrders : o.order_date = d}
              IN  /\ HasEntry(cache.faturamento, d,
                              Faturamento(ItemsOf(orders)))
                  /\ HasEntry(cache.pedidos_count, d, Cardinality(orders))
        /\ cache.top_produtos.members =
               {[member |-> n,
                 score |->
                     TotalQty({it \in ItemsOf(CompletedOrders) :
                                  \E p \in db.products :
                                     p.id = it.product /\ p.name = n})] :
                n \in {p.name : p \in {x \in db.products :
                           \E it \in ItemsOf(CompletedOrders) :
                              it.product = x.id}}}
        /\ \A c \in db.customers :
              (\E o \in CompletedOrders : o.customer = c.id) =>
                  HasEntry(cache.vendas_regiao, c.region,
                           Faturamento(ItemsOf(
                               {o \in CompletedOrders :
                                   \E k \in db.customers :
                                      /\ k.id = o.customer
                                      /\ k.region = c.region})))
        /\ HasEntry(cache.clientes_ativos, today,
                    Cardinality({o.customer : o \in
                                    {x \in CompletedOrders :
                                        x.order_date = today}}))

\* a completed and a cancelled order of one customer on one day
C17_Witness ==
    /\ Published
    /\ \E o1, o2 \in db.orders :
          /\ o1.status = "Completed"
          /\ o2.status = "Cancelled"
          /\ o1.customer = o2.customer
          /\ o1.order_date = today
          /\ o2.order_date = today

\* C18: publishing the aggregates a second time over unchanged data leaves
\* the cache with the keys and values the first publication left, the
\* members and scores of top_produtos included.
C18_RepublishIdempotent ==
    [][pc' = "republished" => (db' = db /\ cache' = cache)]_vars

\* republished over data with completed sales, after an earlier run
C18_Witness ==
    /\ pc = "republished"
    /\ cache.top_produtos.members # {}
    /\ next_id.customers > 3

\* C19: after any runs and publications get_regional_sales returns an entry
\* for each of the five regions, and a region without completed sales in
\* the persisted data reports 0, not a value of an earlier publication.
C19_RegionalSales ==
    (reply # Nothing /\ reply[1].op = "get_regional_sales") =>
        /\ {e.regiao : e \in reply[1].vendas} = Rows(REGIONS)
        /\ \A e \in reply[1].vendas :
              (\A o \in CompletedOrders :
                  \A c \in db.customers :
                     c.id = o.customer => c.region # e.regiao)
              => e.valor = 0

\* C20: after a run get_top_products(limit=K) returns at most K entries, in
\* descending order of quantity, each a product name with the quantity of
\* it sold in completed orders.
C20_TopProducts ==
    (reply # Nothing /\ reply[1].op = "get_top_products") =>
        LET produtos == reply[1].produtos
        IN  /\ Len(produtos) <= reply[1].limit
            /\ \A i \in 1..Len(produtos) - 1 :
                  produtos[i][2] >= produtos[i + 1][2]
            /\ \A i \in 1..Len(produtos) :
                  /\ \E p \in db.products : p.name = produtos[i][1]
                  /\ produtos[i][2] =
                         TotalQty({it \in ItemsOf(CompletedOrders) :
                                      \E p \in db.products :
                                         /\ p.id = it.product
                                         /\ p.name = produtos[i][1]})

\* C21: when the publication of handle completes, every key it wrote (the
\* revenue and order count of a day, top_produtos, the revenue of a region,
\* the active customers of today) carries an expiry of 86400 seconds.
C21_EveryKeyExpires ==
    Published =>
        /\ \A e \in cache.faturamento : e.ex = REDIS_TTL_SECONDS
        /\ \A e \in cache.pedidos_count : e.ex = REDIS_TTL_SECONDS
        /\ \A e \in cache.vendas_regiao : e.ex = REDIS_TTL_SECONDS
        /\ \A e \in cache.clientes_ativos : e.ex = REDIS_TTL_SECONDS
        /\ cache.top_produtos.members # {} =>
              cache.top_produtos.ex = REDIS_TTL_SECONDS

C21_Witness ==
    /\ Published
    /\ cache.faturamento # {}
    /\ cache.pedidos_count # {}
    /\ cache.vendas_regiao # {}
    /\ cache.clientes_ativos # {}
    /\ cache.top_produtos.members # {}

\* C22: two runs of handle with the same seed and the same options generate
\* the same numbers of customers, products and orders and the same sequence
\* of records: the output is a function of the seed and the options alone.
Replayed == Len(runs) = MaxReplays /\ \A i \in 1..Len(runs) : runs[i].done

C22_SameSeedSameOutput ==
    Replayed =>
        /\ runs[1].products = runs[2].products
        /\ runs[1].customers = runs[2].customers
        /\ runs[1].orders = runs[2].orders

\* C23: a run started with a negative years, customers-per-year or
\* products-per-year (or a window that ends before it starts) fails with a
\* configuration error before anything is generated, deleted or written.
InvalidOptions ==
    /\ options # Nothing
    /\ \/ options[1].years < 0
       \/ options[1].customers_per_year < 0
       \/ options[1].products_per_year < 0

C23_InvalidOptionsRejected ==
    InvalidOptions =>
        /\ pc \in {"begin", "aborted"}
        /\ tx = db
        /\ created_customers = <<>>
        /\ created_products = <<>>
        /\ pc = "aborted" =>
               /\ reply # Nothing
               /\ reply[1].raised = "InvalidSimulationParametersError"

\* C24: handle works on the store in dependency order: the old rows are
\* deleted children first (items, orders, products, customers), customers
\* and products are written before any order and all orders before any
\* item, and no item is written before its order and its product.
DependsOn ==
    {<<"items", "orders">>, <<"items", "products">>,
     <<"orders", "customers">>}

C24_DependencyOrder ==
    /\ [](\A j \in 1..Len(ops) : \A dep \in DependsOn :
             /\ (ops[j] = Statement("delete", dep[2])) =>
                    \E i \in 1..(j - 1) : ops[i] = Statement("delete", dep[1])
             /\ (ops[j] = Statement("create", dep[1])) =>
                    \E i \in 1..(j - 1) :
                       /\ ops[i] = Statement("create", dep[2])
                       /\ \E d \in 1..(i - 1) :
                             ops[d] = Statement("delete", dep[1]))
    /\ [][pc' = "flushed" =>
             \A it \in tx'.items \ tx.items :
                /\ \E o \in tx.orders : o.id = it.order
                /\ \E p \in tx.products : p.id = it.product]_vars

C24_Witness ==
    /\ pc = "flushed"
    /\ Len(ops) = 8
    /\ Cardinality(tx.items) >= 2
    /\ db = OldData

C26_MultiplierLookup ==
    reply # Nothing =>
        /\ reply[1].raised = None
        /\ reply[1].value =
              (CASE reply[1].kind = "viral" -> 200
                 [] reply[1].kind = "marketing" -> 180
                 [] reply[1].kind = "site_down" -> 30
                 [] reply[1].kind \in {"logistics_crisis", "logistics"} -> 50)

\* C27: every order generate_orders_batch produces for a date has an
\* order_date on or after the created_at of the customer it is assigned
\* to, for every customer list passed in.
C27_OrderAfterEnrollment ==
    reply # Nothing =>
        \A k \in 1..Len(reply[1].orders) :
           reply[1].orders[k].order_date
              >= reply[1].orders[k].customer.created_at

\* C28: a call of get_client made while the server is unreachable and no
\* ping has succeeded returns None, the first call and every later one; a
\* client is returned only when a ping has succeeded, in this call or in an
\* earlier one; and once a ping has succeeded every later call returns that
\* client.
C28_ClientOnlyAfterPing ==
    \A i \in 1..Len(ops) :
       LET pinged == \E j \in 1..i : ops[j].pinged
       IN  /\ (~ops[i].up /\ ~pinged) => ops[i].ret = None
           /\ ops[i].ret # None => pinged
           /\ pinged => ops[i].ret = "client"

\* C29: in a later run of handle on the same Command object, an event
\* that check_market_event returns as still active (without a draw) was
\* started in that run: every run begins with no active event.
C29_RunStartsWithoutEvent ==
    (runs # <<>> /\ event_call # Nothing /\ ~event_call[1].drew)
        => started # Nothing

\* C30: after any sequence of publications the members of top_produtos are
\* exactly the product names with sales in completed orders of the data
\* now persisted, each scored with its total quantity sold: a name that an
\* earlier run published and the current data do not sell is not a member,
\* and a score is the quantity of the current data, not a sum over the
\* publications.
C30_TopProdutosCurrent ==
    Published =>
        LET QtyOf(n) ==
                TotalQty({it \in ItemsOf(CompletedOrders) :
                             \E p \in db.products :
                                p.id = it.product /\ p.name = n})
        IN  /\ \A m \in cache.top_produtos.members :
                  /\ m.score = QtyOf(m.member)
                  /\ \E it \in ItemsOf(CompletedOrders) :
                        \E p \in db.products :
                           p.id = it.product /\ p.name = m.member
            /\ \A it \in ItemsOf(CompletedOrders) :
                  \A p \in db.products :
                     p.id = it.product =>
                        \E m \in cache.top_produtos.members :
                           m.member = p.name
            /\ \A m1, m2 \in cache.top_produtos.members :
                  m1.member = m2.member => m1 = m2

\* a later run without a completed order, published over a cache that
\* still holds the daily revenue of an earlier run with completed sales
C30_Witness ==
    /\ Published
    /\ next_id.customers > 3
    /\ CompletedOrders = {}
    /\ db.orders # {}
    /\ cache.faturamento # {}
    /\ cache.top_produtos.members = {}

====
